---- MODULE Spec2Model ----
(***************************************************************************)
(* Model of the sorting-line control program:                              *)
(*   utils/aligned_queue.py      AlignedQueue                              *)
(*   utils/DataManager.py        DataManager                               *)
(*   utils/template_manager.py   Template                                  *)
(*   core/CachedSortingTaskManager.py  CachedSortingTaskManager            *)
(*   core/sorting_task_manager.py     CustomSortingTask, Counter            *)
(*   core/plc_communicator.py         get_all_channels_grades_data          *)
(* Python's None is written as the empty tuple where a tuple is expected   *)
(* and as a tagged record where an int is expected.                        *)
(***************************************************************************)
EXTENDS Integers, Sequences, FiniteSets, TLC

VARIABLES
    unit,        \* which component the behaviour exercises
    my_queue,    \* AlignedQueue._queue of a free-standing queue
    q_max,       \* its deque maxlen
    q_serial,    \* number of put() calls so far (the payload of each entry)
    q_last,      \* the last call on the queue: arguments, queue before, result
    q_gone,      \* payloads of the entries get_aligned popped as stale so far
    q_floor,     \* largest position get_aligned returned or popped so far
    q_mono,      \* every put so far had a position >= the one before it
    q_lastPut,   \* position of the latest put
    t_last,      \* the last Template.get_channel call: arguments and result
    weight_offset,   \* DataManager.weight_offset
    water_offset,    \* DataManager.water_offset
    cur_template_id, \* DataManager.cur_template_id
    weight_queue,    \* DataManager.weight_queue: line_id -> AlignedQueue
    water_queue,     \* DataManager.water_queue: line_id -> AlignedQueue
    d_calls,         \* number of set_value calls so far
    d_last           \* the last set_value call: arguments, queues before, result

\* CachedSortingTaskManager, its Counter and its view of the controller:
\*   running, counter (Counter._value), _count, tasks (the CustomSortingTask
\*   objects, by identity), custom_tasks (the list, as identities),
\*   enable_*, weight_ranges, cached_channels_data, stats, loop_count;
\*   c_read is the dict as the last bulk read returned it, c_write what the
\*   write-back of the last iteration returned ("none": it was not called),
\*   applied the tasks whose lane was ever written into a slot
VARIABLES running, counter, _count, tasks, custom_tasks, enable_weight_sorting,
          enable_custom_sorting, weight_ranges, cached_channels_data, stats,
          loop_count, c_read, c_write, applied

\* The manager's lock, step by step: m_lock is the thread inside
\* `with self._lock` ("free": none), m_pc where the monitor thread and the
\* calling thread stand, m_access the last access either made to
\* weight_ranges, custom_tasks or an enable flag (and whether it held the
\* lock), m_local the monitor thread's locals data_modified and current_count
VARIABLES m_lock, m_pc, m_access, m_local

\* PLCCommunicator, step by step: p_lock is the thread inside
\* `with self._lock`, p_pc and p_op where each calling thread stands and in
\* which call, p_val the register value its last read returned, p_req the
\* value its write request carries, p_ret what its call returned, p_wire the
\* threads with a request on the connection, p_open whether the socket is
\* open, p_regs the controller's control and status registers
VARIABLES p_lock, p_pc, p_op, p_val, p_req, p_ret, p_wire, p_open, p_regs

\* what the call a thread is in has done so far: the read and write requests
\* it sent and whether one of its steps failed
VARIABLES p_call

\* start(), stop() and the monitor-loop threads: thread is self.thread (0 for
\* None, else the number of the thread started last), l_pc where each thread
\* stands in _monitor_loop_cached, l_out how its last cycle ended, s_pc
\* whether the caller of stop() waits in join, s_last the last call made
VARIABLES thread, l_pc, l_out, s_pc, s_last

\* SortingTaskManager._process_weight_sorting: w_last is what the last scan of
\* weight_ranges did for the one waiting item it was given (the item's
\* weight, whether a grade was written and which)
VARIABLES w_last

\* put() and get_aligned() on one AlignedQueue from two threads, deque
\* operation by deque operation: r_queue is the deque, r_pc where the
\* thread inside get_aligned stands, r_t its alignment_position, r_head the
\* current_position it read from self._queue[0], r_ret what the last call
\* returned, r_lost the entries the call in progress (or the last call)
\* popped and dropped, r_puts and r_calls the calls made so far
VARIABLES r_queue, r_pc, r_t, r_head, r_ret, r_lost, r_puts, r_calls

rvars == <<r_queue, r_pc, r_t, r_head, r_ret, r_lost, r_puts, r_calls>>

\* The Counter, statement by statement: k_value is _value, k_lock the thread
\* inside `with self._lock` (0 when free), k_observers the list _observers,
\* k_pc, k_op and k_loc where each calling thread stands, the call it makes
\* and its locals, k_seen the callbacks its call has invoked so far, k_ret
\* what its call returns, k_expect the value the mutations give when applied
\* one after the other in the order of their writes, k_calls the calls made
VARIABLES k_value, k_lock, k_observers, k_pc, k_op, k_loc, k_seen, k_ret,
          k_expect, k_calls

ctrvars == <<k_value, k_lock, k_observers, k_pc, k_op, k_loc, k_seen, k_ret,
             k_expect, k_calls>>

\* The weight services and their data store: g_store is the configuration
\* in the weight_configs table, g_cur the current_config of each service,
\* g_last what the last update_config or reload_config call reported, g_calls
\* the calls made
VARIABLES g_store, g_cur, g_last, g_calls

wcvars == <<g_store, g_cur, g_last, g_calls>>

qvars == <<my_queue, q_max, q_serial, q_last, q_gone, q_floor, q_mono, q_lastPut>>
tvars == <<t_last>>
dmvars == <<weight_offset, water_offset, cur_template_id, weight_queue, water_queue>>
dvars == <<dmvars, d_calls, d_last>>
cfgvars == <<enable_weight_sorting, enable_custom_sorting, weight_ranges>>
cntvars == <<counter, _count>>
taskvars == <<tasks, custom_tasks>>
loopvars == <<cached_channels_data, stats, loop_count, c_read, c_write, applied>>
svars == <<running, cntvars, taskvars, cfgvars, loopvars>>
lkvars == <<m_lock, m_pc, m_access, m_local>>
pvars == <<p_lock, p_pc, p_op, p_val, p_req, p_ret, p_wire, p_open, p_regs, p_call>>
lfvars == <<thread, l_pc, l_out, s_pc, s_last>>
wvars == <<w_last>>
vars == <<unit, qvars, tvars, dvars, svars, lkvars, pvars, lfvars, wvars, rvars, ctrvars, wcvars>>

-----------------------------------------------------------------------------
(* Bounds of the model *)
MaxLen == 3       \* largest max_length of the free-standing queue
MaxPos == 2       \* positions are 0..MaxPos
MaxPuts == 4      \* put() calls on the free-standing queue
MaxCalls == 3     \* set_value() calls on the DataManager alone
MaxTasks == 2     \* override tasks submitted
MaxCount == 2     \* the Counter runs over 0..MaxCount
MaxCycles == 2    \* iterations of the monitor loop     \* set_value() calls on the DataManager
MaxThreads == 2   \* monitor threads start() creates
MaxRanges == 3    \* weight ranges stored by add_weight_range
MaxCounterCalls == 3  \* calls made on the Counter by its threads
MaxConfigCalls == 3   \* update_config and reload_config calls, and edits of the store

Positions == 0..MaxPos

Max(a, b) == IF a >= b THEN a ELSE b

-----------------------------------------------------------------------------
(* AlignedQueue *)

NoItem == <<>>
Item(e) == <<e>>

Entry(d, p) == [data |-> d, position |-> p]

PutNoEvict(q, maxlen, e) == Append(q, e)

\* deque(maxlen).append: a full deque drops its leftmost element
Put(q, maxlen, e) ==
    IF Len(q) >= maxlen THEN Append(Tail(q), e) ELSE Append(q, e)

AheadPops(q) == Tail(q)

\* alignment_position < current_position: return None, the deque is not touched
Ahead(q) == q

RemainingKeepsStale(rest, stale) == stale \o rest

\* the deque after the loop's popleft() calls
Remaining(rest, stale) == rest

IsAlignedOrPast(t, p) == t <= p

\* alignment_position == current_position
IsAligned(t, p) == t = p

RECURSIVE GetAlignedLoop(_, _, _)
GetAlignedLoop(q, t, stale) ==
    IF q = <<>>
    THEN [result |-> NoItem, queue |-> Remaining(q, stale), stale |-> stale]
    ELSE IF IsAligned(t, Head(q).position)
    THEN [result |-> Item(Head(q)), queue |-> Remaining(Tail(q), stale), stale |-> stale]
    ELSE IF t < Head(q).position
    THEN [result |-> NoItem, queue |-> Remaining(Ahead(q), stale), stale |-> stale]
    ELSE GetAlignedLoop(Tail(q), t, Append(stale, Head(q)))

GetAligned(q, t) == GetAlignedLoop(q, t, <<>>)

SeqRange(s) == {s[i] : i \in 1..Len(s)}
SeqMax(s, floor) ==
    LET ps == {s[i].position : i \in 1..Len(s)} \cup {floor}
    IN  CHOOSE m \in ps : \A x \in ps : x <= m

-----------------------------------------------------------------------------
(* Template *)

\* an int-or-None value: the result of get_channel, or an exception leaving it
NoneV == [tag |-> "None", val |-> 0]
IntV(n) == [tag |-> "int", val |-> n]
RaiseV == [tag |-> "raise", val |-> 0]

\* an XML attribute: its text read as a number, or missing (attrib.get gives None)
Attr(n) == [has |-> TRUE, val |-> n]
NoAttr == [has |-> FALSE, val |-> 0]

Level(o, s, lo, hi) == [out |-> o, subout |-> s, min |-> lo, max |-> hi]
Score(o, s, v) == [out |-> o, subout |-> s, score |-> v]
Detector(n, w, m, bad, good) ==
    [name |-> n, wg |-> w, max |-> m, badLevel |-> bad, goodLevel |-> good]

\* the templates of the configuration file; detectors are in document order
Templates ==
    [id \in {"1", "2", "3", "4", "5", "6", "7"} |->
        CASE id = "1" ->
            [scores_enabled |-> TRUE,
             scores_config |-> <<Score(8, 9, 80), Score(10, 11, 60), Score(12, 13, 40)>>,
             detectors |-> <<
                Detector("weight", Attr(50), Attr(799),
                         <<Level(1, 0, 0, 500)>>, <<Level(9, 10, 501, 799)>>),
                Detector("water", Attr(50), Attr(59),
                         <<Level(2, 0, -10, 20)>>, <<Level(7, 8, 21, 59)>>)>>]
          [] id = "2" ->
            [scores_enabled |-> FALSE,
             scores_config |-> <<>>,
             detectors |-> <<
                Detector("weight", Attr(100), NoAttr,
                         <<Level(1, 0, 0, 100)>>, <<Level(14, 15, 101, 200)>>),
                Detector("water", Attr(0), NoAttr, <<>>, <<>>)>>]
          [] id = "3" ->
            [scores_enabled |-> TRUE,
             scores_config |-> <<Score(8, 9, 80), Score(10, 11, 60), Score(12, 13, 40)>>,
             detectors |-> <<
                Detector("weight", Attr(50), NoAttr,
                         <<Level(1, 0, 0, 500)>>, <<Level(9, 10, 501, 799)>>),
                Detector("water", Attr(50), NoAttr,
                         <<Level(2, 0, -10, 20)>>, <<Level(7, 8, 21, 59)>>)>>]
          [] id = "4" ->
            [scores_enabled |-> TRUE,
             scores_config |-> <<Score(12, 13, 40), Score(8, 9, 80), Score(10, 11, 60),
                                 Score(5, 6, 60)>>,
             detectors |-> <<
                Detector("water", Attr(30), Attr(59),
                         <<Level(2, 0, -10, 20), Level(4, 0, 15, 25)>>,
                         <<Level(7, 8, 26, 59)>>),
                Detector("weight", Attr(70), Attr(799),
                         <<Level(1, 0, 0, 500), Level(3, 0, 400, 550)>>,
                         <<Level(9, 10, 551, 799)>>)>>]
          [] id = "5" ->
            [scores_enabled |-> TRUE,
             scores_config |-> <<Score(10, 11, 30), Score(12, 13, 0)>>,
             detectors |-> <<
                Detector("weight", Attr(50), Attr(799),
                         <<Level(1, 0, 0, 500)>>, <<Level(9, 10, 501, 799)>>),
                Detector("water", NoAttr, Attr(59), <<>>, <<>>)>>]
          [] id = "6" ->
            [scores_enabled |-> FALSE,
             scores_config |-> <<>>,
             detectors |-> <<
                Detector("weight", Attr(0), NoAttr,
                         <<Level(1, 0, 0, 100)>>, <<Level(9, 10, 101, 9999)>>),
                Detector("water", Attr(100), NoAttr,
                         <<Level(2, 0, -10, 20)>>,
                         <<Level(7, 8, 21, 40), Level(5, 6, 30, 59)>>)>>]
          [] id = "7" ->
            [scores_enabled |-> FALSE,
             scores_config |-> <<>>,
             detectors |-> <<
                Detector("weight", Attr(60), NoAttr,
                         <<Level(1, 0, 0, 100)>>, <<Level(9, 10, 101, 9999)>>),
                Detector("water", Attr(40), NoAttr,
                         <<Level(2, 0, -10, 20)>>, <<Level(7, 8, 21, 59)>>)>>]]

TemplateIds == DOMAIN Templates

\* self._detectors.get(name): the detector of that tag, or none
HasDetector(tpl, name) == \E i \in 1..Len(tpl.detectors) : tpl.detectors[i].name = name
GetDetector(tpl, name) ==
    tpl.detectors[CHOOSE i \in 1..Len(tpl.detectors) : tpl.detectors[i].name = name]

InLevelStrict(level, value) == level.min < value /\ value < level.max

\* level["min"] <= value <= level["max"]
InLevel(level, value) == level.min <= value /\ value <= level.max

\* the first level of the list holding the value, 0 when none does
FirstLevel(levels, value) ==
    IF \E i \in 1..Len(levels) : InLevel(levels[i], value)
    THEN CHOOSE i \in 1..Len(levels) :
            /\ InLevel(levels[i], value)
            /\ \A j \in 1..(i - 1) : ~InLevel(levels[j], value)
    ELSE 0

CheckBadLevel(tpl, name, value) ==
    IF ~HasDetector(tpl, name) THEN NoneV
    ELSE LET bad == GetDetector(tpl, name).badLevel
             i == FirstLevel(bad, value)
         IN  IF i = 0 THEN NoneV ELSE IntV(bad[i].out)

ChannelFromLevelOutOnly(level, second) == IntV(level.out)

\* _get_channel_from_level: out on an even second, subout on an odd one
ChannelFromLevel(level, second) ==
    IF second % 2 = 0 THEN IntV(level.out) ELSE IntV(level.subout)

\* score >= s_score for score = num / den, in exact arithmetic
ScoreAtLeast(num, den, s) ==
    IF den > 0 THEN num >= s * den ELSE num <= s * den

FirstScoreInOrder(tpl, num, den) ==
    LET cfg == tpl.scores_config
        hit == {i \in 1..Len(cfg) : ScoreAtLeast(num, den, cfg[i].score)}
    IN  IF hit = {} THEN 0 ELSE CHOOSE i \in hit : \A j \in hit : i <= j

\* the scan of the thresholds in descending order, then the first entry of the
\* table with the threshold found; 0 when the score is below every threshold
ScoreEntry(tpl, num, den) ==
    LET cfg == tpl.scores_config
        hit == {i \in 1..Len(cfg) : ScoreAtLeast(num, den, cfg[i].score)}
    IN  IF hit = {} THEN 0
        ELSE LET best == CHOOSE i \in hit : \A j \in hit : cfg[j].score <= cfg[i].score
             IN  CHOOSE i \in 1..Len(cfg) :
                    /\ cfg[i].score = cfg[best].score
                    /\ \A j \in 1..(i - 1) : cfg[j].score # cfg[best].score

\* step 2 of get_channel: the composite score
ScoreChannel(tpl, weight_value, water_value, second) ==
    LET hasW == HasDetector(tpl, "weight")
        hasA == HasDetector(tpl, "water")
        wg_weight_str == IF hasW THEN GetDetector(tpl, "weight").wg ELSE Attr(0)
        wg_water_str == IF hasA THEN GetDetector(tpl, "water").wg ELSE Attr(0)
        weight_max_str == IF hasW THEN GetDetector(tpl, "weight").max ELSE NoAttr
        water_max_str == IF hasA THEN GetDetector(tpl, "water").max ELSE NoAttr
        \* int(None) raises a TypeError
        typeError == \/ wg_water_str.has /\ ~wg_weight_str.has
                     \/ weight_max_str.has /\ ~water_max_str.has
        wg_weight == IF wg_water_str.has THEN wg_weight_str.val ELSE 0
        wg_water == IF wg_water_str.has THEN wg_water_str.val ELSE 0
        weight_max == IF weight_max_str.has THEN weight_max_str.val ELSE 0
        water_max == IF weight_max_str.has THEN water_max_str.val ELSE 0
        num == wg_weight * weight_value * water_max + wg_water * water_value * weight_max
        den == weight_max * water_max
    IN  IF typeError THEN RaiseV
        ELSE IF weight_max = 0 \/ water_max = 0 THEN RaiseV
        ELSE LET i == ScoreEntry(tpl, num, den)
             IN  IF i = 0 THEN NoneV
                 ELSE ChannelFromLevel(tpl.scores_config[i], second)

\* step 3 of get_channel: the detector whose wg is "100"
DominantChannel(tpl, weight_value, water_value, second) ==
    LET ds == tpl.detectors
        dom == {i \in 1..Len(ds) : ds[i].wg = Attr(100)}
    IN  IF dom = {} THEN NoneV
        ELSE LET d == ds[CHOOSE i \in dom : \A j \in dom : i <= j]
                 v == IF d.name = "weight" THEN weight_value ELSE water_value
                 k == FirstLevel(d.goodLevel, v)
             IN  IF k = 0 THEN NoneV ELSE ChannelFromLevel(d.goodLevel[k], second)

BadLevelChannelWaterFirst(tpl, weight_value, water_value) ==
    LET ba == CheckBadLevel(tpl, "water", water_value)
    IN  IF ba.tag # "None" THEN ba ELSE CheckBadLevel(tpl, "weight", weight_value)

\* step 1 of get_channel: the badLevel of weight, then the badLevel of water
BadLevelChannel(tpl, weight_value, water_value) ==
    LET bw == CheckBadLevel(tpl, "weight", weight_value)
    IN  IF bw.tag # "None" THEN bw ELSE CheckBadLevel(tpl, "water", water_value)

GetChannel(tpl, weight_value, water_value, second) ==
    LET bad == BadLevelChannel(tpl, weight_value, water_value)
    IN  IF bad.tag # "None" THEN bad
        ELSE IF tpl.scores_enabled
        THEN ScoreChannel(tpl, weight_value, water_value, second)
        ELSE DominantChannel(tpl, weight_value, water_value, second)

-----------------------------------------------------------------------------
(* DataManager *)

\* line ids are the channel letters
Lines == {"A", "B", "C", "D"}

QueueSlack == 10

\* a dict entry of weight_queue / water_queue: absent, or an AlignedQueue
NoQueue == [exists |-> FALSE, maxlen |-> 0, items |-> <<>>]
NewQueue(max_length) == [exists |-> TRUE, maxlen |-> max_length, items |-> <<>>]

\* AlignedQueue(max_length=offset + 10)
QueueFor(offset) == NewQueue(offset + QueueSlack)

\* A water reading is a number of hundredths (the analyser's register / 100);
\* int() of it drops the fraction, towards zero.
PyInt(h) == IF h >= 0 THEN h \div 100 ELSE -((-h) \div 100)

MissingWater == -100

AlignmentPositionNoOffset(current_position, offset) == current_position

\* alignment_position = current_position - offset
AlignmentPosition(current_position, offset) == current_position - offset

Dm(wo, ao, tid, wq, aq) ==
    [weight_offset |-> wo, water_offset |-> ao, cur_template_id |-> tid,
     weight_queue |-> wq, water_queue |-> aq]

\* _get_offset_value: the value and the queue after the get_aligned call
GetOffsetValue(dm, line_id, value_name, current_position) ==
    LET queue == IF value_name = "weight" THEN dm.weight_queue[line_id]
                 ELSE dm.water_queue[line_id]
        offset == IF value_name = "weight" THEN dm.weight_offset ELSE dm.water_offset
    IN  IF ~queue.exists THEN [value |-> NoItem, queue |-> queue]
        ELSE LET r == GetAligned(queue.items, AlignmentPosition(current_position, offset))
             IN  [value |-> IF r.result # NoItem THEN Item(r.result[1].data) ELSE NoItem,
                  queue |-> [queue EXCEPT !.items = r.queue]]

\* template_manager.get_template(self.cur_template_id)
HasTemplate(tid) == tid \in TemplateIds

NoCall(dm) ==
    [dm |-> dm, result |-> NoneV, evaluated |-> FALSE, weight_arg |-> 0, water_arg |-> 0,
     miss |-> FALSE]

\* set_value: the manager after the call, what is returned, and the arguments
\* get_channel was called with (when it was)
SetValue(dm, line_id, value_name, value, position, second) ==
    IF value_name \notin {"weight", "water"} THEN NoCall(dm)
    ELSE
    LET offset == IF value_name = "weight" THEN dm.weight_offset ELSE dm.water_offset
        own == IF value_name = "weight" THEN dm.weight_queue[line_id]
               ELSE dm.water_queue[line_id]
        made == IF own.exists THEN own ELSE QueueFor(offset)
        dm1 == IF value_name = "weight"
               THEN [dm EXCEPT !.weight_queue[line_id] = made]
               ELSE [dm EXCEPT !.water_queue[line_id] = made]
    IN  IF offset > 0
        THEN LET put == [made EXCEPT !.items = Put(made.items, made.maxlen,
                                                    Entry(value, position))]
             IN  NoCall(IF value_name = "weight"
                        THEN [dm1 EXCEPT !.weight_queue[line_id] = put]
                        ELSE [dm1 EXCEPT !.water_queue[line_id] = put])
        ELSE IF offset # 0 THEN NoCall(dm1)
        ELSE IF ~HasTemplate(dm1.cur_template_id) THEN NoCall(dm1)
        ELSE IF value_name = "weight"
        THEN LET got == GetOffsetValue(dm1, line_id, "water", position)
                 dm2 == [dm1 EXCEPT !.water_queue[line_id] = got.queue]
                 water_value == IF got.value = NoItem THEN MissingWater
                                ELSE PyInt(got.value[1])
             IN  [dm |-> dm2,
                  result |-> GetChannel(Templates[dm1.cur_template_id], value,
                                        water_value, second),
                  evaluated |-> TRUE, weight_arg |-> value, water_arg |-> water_value,
                  miss |-> got.value = NoItem]
        ELSE LET got == GetOffsetValue(dm1, line_id, "weight", position)
                 dm2 == [dm1 EXCEPT !.weight_queue[line_id] = got.queue]
             IN  IF got.value = NoItem THEN [NoCall(dm2) EXCEPT !.miss = TRUE]
                 ELSE [dm |-> dm2,
                       result |-> GetChannel(Templates[dm1.cur_template_id],
                                             got.value[1], PyInt(value), second),
                       evaluated |-> TRUE, weight_arg |-> got.value[1],
                       water_arg |-> PyInt(value), miss |-> FALSE]

-----------------------------------------------------------------------------
(* PLCCommunicator.get_all_channels_grades_data *)

\* the keys of the returned dict, in insertion order ('channel_A' .. 'channel_D')
Channels == <<"A", "B", "C", "D">>

SlotsPerChannel == 10

PENDING == 100

\* a value of the dict: None, or the list of slot records of the channel
ChannelNone == [ok |-> FALSE, items |-> <<>>]
ChannelData(items) == [ok |-> TRUE, items |-> items]

SlotRecord(sequence, weight, grade) ==
    [sequence |-> sequence, weight |-> weight, grade |-> grade]

\* self.cached_channels_data: None as constructed, then the dict last read
CacheNone == [loaded |-> FALSE, channels |-> [c \in Lines |-> ChannelNone]]

\* registers: what the controller answers the one read with; regs.weight and
\* regs.grade are the decoded fields of slot i of each channel
GetAllChannelsGradesData(regs) ==
    IF ~regs.ok
    THEN [loaded |-> TRUE, channels |-> [c \in Lines |-> ChannelNone]]
    ELSE [loaded |-> TRUE,
          channels |-> [c \in Lines |->
              ChannelData([i \in 1..SlotsPerChannel |->
                  SlotRecord(i, regs.weight[c][i], regs.grade[c][i])])]]

\* bool(channel_data): None and the empty list are false
Truthy(channel_data) == channel_data.ok /\ channel_data.items # <<>>

-----------------------------------------------------------------------------
(* CachedSortingTaskManager *)

CustomSortingTask(target_count, sort_channel, target_channel) ==
    [target_count |-> target_count, sort_channel |-> sort_channel,
     target_channel |-> target_channel, executed |-> FALSE, success |-> "None"]

\* mark_executed(success)
MarkExecuted(task, success) ==
    [task EXCEPT !.executed = TRUE, !.success = IF success THEN "True" ELSE "False"]

\* list.sort(key=target_count) of a sorted list with one task appended: the
\* sort is stable, the new task goes behind every task that is not later
RECURSIVE InsertByTarget(_, _, _)
InsertByTarget(heap, ids, id) ==
    IF ids = <<>> THEN <<id>>
    ELSE IF heap[Head(ids)].target_count <= heap[id].target_count
         THEN <<Head(ids)>> \o InsertByTarget(heap, Tail(ids), id)
         ELSE <<id>> \o ids

RECURSIVE SortByTarget(_, _)
SortByTarget(heap, ids) ==
    IF ids = <<>> THEN <<>>
    ELSE InsertByTarget(heap, SortByTarget(heap, SubSeq(ids, 1, Len(ids) - 1)),
                        ids[Len(ids)])

\* a processing step that never takes a task off custom_tasks
RemoveNothing(ids, gone) == ids

\* self.custom_tasks.remove(task) for every task of tasks_to_remove
RemoveTasks(ids, gone) == SelectSeq(ids, LAMBDA id : id \notin SeqRange(gone))

\* the first item that waits for a grade, whatever its sequence
TargetItemPending(items) ==
    IF \E i \in 1..Len(items) : items[i].grade = 100
    THEN CHOOSE i \in 1..Len(items) :
            /\ items[i].grade = 100
            /\ \A j \in 1..(i - 1) : items[j].grade # 100
    ELSE 0

TargetItemSecond(items) ==
    IF \E i \in 1..Len(items) : items[i].sequence = 2
    THEN CHOOSE i \in 1..Len(items) :
            /\ items[i].sequence = 2
            /\ \A j \in 1..(i - 1) : items[j].sequence # 2
    ELSE 0

\* the first item whose sequence is target_sequence = 1 (its index), or none (0)
TargetItem(items) ==
    IF \E i \in 1..Len(items) : items[i].sequence = 1
    THEN CHOOSE i \in 1..Len(items) :
            /\ items[i].sequence = 1
            /\ \A j \in 1..(i - 1) : items[j].sequence # 1
    ELSE 0

ExpiredNever(current_count, target_count) == FALSE

\* elif current_count > task.target_count
Expired(current_count, target_count) == current_count > target_count

\* the body of the loop over self.custom_tasks, for one task
CustomStep(st, id, current_count) ==
    LET task == st.heap[id]
        ch == task.target_channel
        items == IF ch \in Lines THEN st.data.channels[ch].items ELSE <<>>
        found == IF ch \in Lines /\ Truthy(st.data.channels[ch]) THEN TargetItem(items)
                 ELSE 0
    IN  IF task.executed THEN st
        ELSE IF current_count = task.target_count
        THEN IF found # 0 /\ items[found].grade = PENDING
             THEN [st EXCEPT
                     !.data.channels[ch].items[found].grade = task.sort_channel,
                     !.data_modified = TRUE,
                     !.heap[id] = MarkExecuted(task, TRUE),
                     !.tasks_to_remove = Append(@, id),
                     !.custom_sorted_count = @ + 1]
             ELSE st
        ELSE IF Expired(current_count, task.target_count)
        THEN [st EXCEPT
                !.heap[id] = MarkExecuted(task, FALSE),
                !.tasks_to_remove = Append(@, id),
                !.missed_tasks = @ + 1]
        ELSE st

RECURSIVE CustomLoop(_, _, _)
CustomLoop(st, ids, current_count) ==
    IF ids = <<>> THEN st
    ELSE CustomLoop(CustomStep(st, Head(ids), current_count), Tail(ids), current_count)

\* _process_custom_sorting_cached: st carries the cached data, the task
\* objects (heap), custom_tasks and the two statistics it touches
ProcessCustomSortingCached(enable, data, heap, ids, current_count, sorted, missed) ==
    LET st0 == [data |-> data, heap |-> heap, data_modified |-> FALSE,
                tasks_to_remove |-> <<>>, custom_sorted_count |-> sorted,
                missed_tasks |-> missed]
        st1 == IF ~enable \/ ~data.loaded THEN st0 ELSE CustomLoop(st0, ids, current_count)
    IN  [data |-> st1.data, heap |-> st1.heap, data_modified |-> st1.data_modified,
         custom_tasks |-> RemoveTasks(ids, st1.tasks_to_remove),
         custom_sorted_count |-> st1.custom_sorted_count,
         missed_tasks |-> st1.missed_tasks,
         applied |-> SelectSeq(st1.tasks_to_remove,
                               LAMBDA id : st1.heap[id].success = "True")]

\* every item in that order, whatever its grade
RECURSIVE PendingOfAny(_, _, _)
PendingOfAny(data, c, i) ==
    IF c > Len(Channels) THEN <<>>
    ELSE IF ~Truthy(data.channels[Channels[c]]) \/ i > Len(data.channels[Channels[c]].items)
         THEN PendingOfAny(data, c + 1, 1)
         ELSE <<[channel |-> Channels[c], index |-> i]>> \o PendingOfAny(data, c, i + 1)

\* the pending items in the order the two loops visit them
RECURSIVE PendingOf(_, _, _)
PendingOf(data, c, i) ==
    IF c > Len(Channels) THEN <<>>
    ELSE IF ~Truthy(data.channels[Channels[c]]) \/ i > Len(data.channels[Channels[c]].items)
         THEN PendingOf(data, c + 1, 1)
         ELSE (IF data.channels[Channels[c]].items[i].grade = PENDING
               THEN <<[channel |-> Channels[c], index |-> i]>> ELSE <<>>)
              \o PendingOf(data, c, i + 1)

\* one pending item: set_value(channel_letter, 'weight', int(weight), self._count)
\* and the grade written into the cached item
RECURSIVE WeightLoop(_, _, _, _)
WeightLoop(st, todo, count, second) ==
    IF todo = <<>> \/ st.raised THEN st
    ELSE LET at == Head(todo)
             item == st.data.channels[at.channel].items[at.index]
             r == SetValue(st.dm, at.channel, "weight", item.weight, count, second)
             seen == Append(st.weighed,
                            [channel |-> at.channel, sequence |-> item.sequence,
                             weight |-> item.weight, miss |-> r.miss,
                             result |-> r.result])
         IN  IF r.result.tag = "raise"
             THEN [st EXCEPT !.raised = TRUE, !.dm = r.dm, !.weighed = seen]
             ELSE WeightLoop(
                    [st EXCEPT
                       !.dm = r.dm,
                       !.weighed = seen,
                       !.data.channels[at.channel].items[at.index].grade =
                            IF r.result.tag = "int" THEN r.result.val ELSE 0,
                       !.data_modified = TRUE],
                    Tail(todo), count, second)

\* _process_weight_sorting_cached
ProcessWeightSortingCached(enable, ranges, data, dm, count, second) ==
    LET st0 == [data |-> data, dm |-> dm, data_modified |-> FALSE, raised |-> FALSE,
                weighed |-> <<>>]
    IN  IF ~enable \/ ranges = <<>> \/ ~data.loaded THEN st0
        ELSE WeightLoop(st0, PendingOf(data, 1, 1), count, second)

-----------------------------------------------------------------------------
(* PLCCommunicator: register bits *)

CONTROL_REGISTER == 0

STATUS_REGISTER == 300

WordMax == 65535

\* 1 << bit_position
Shl(bit_position) == 2 ^ bit_position

\* bool(register_value & (1 << bit_position))
TestBit(register_value, bit_position) ==
    (register_value \div Shl(bit_position)) % 2 = 1

\* the mask alone, without the value that was read
SetBitOnly(register_value, bit_position) == Shl(bit_position)

\* register_value |= (1 << bit_position)
SetBit(register_value, bit_position) ==
    IF TestBit(register_value, bit_position) THEN register_value
    ELSE register_value + Shl(bit_position)

\* register_value &= ~(1 << bit_position)
ClearBit(register_value, bit_position) ==
    IF TestBit(register_value, bit_position) THEN register_value - Shl(bit_position)
    ELSE register_value

\* the documented bit number taken as the bit of the register
ConvertIdentity(doc_bit) == doc_bit

\* _convert_doc_bit_to_actual_bit
ConvertDocBitToActualBit(doc_bit) ==
    IF doc_bit <= 7 THEN doc_bit + 8 ELSE doc_bit - 8

ControlNames ==
    <<"remote_control", "remote_start", "remote_stop", "remote_reset", "remote_clear">>

StatusNames ==
    <<"system_ready", "system_running", "system_stopped", "system_alarm", "photo_mapping">>

\* the documented bit of each name: its place in the list, from 0
DocBit(names, name) == (CHOOSE i \in 1..Len(names) : names[i] = name) - 1

\* self.CONTROL_BITS and self.STATUS_BITS as __init__ fills them
CONTROL_BITS ==
    [name \in SeqRange(ControlNames) |->
        ConvertDocBitToActualBit(DocBit(ControlNames, name))]

STATUS_BITS ==
    [name \in SeqRange(StatusNames) |->
        ConvertDocBitToActualBit(DocBit(StatusNames, name))]

\* get_system_status on a register value that was read
SystemStatus(register_value) ==
    [name \in SeqRange(StatusNames) |-> TestBit(register_value, STATUS_BITS[name])]

\* HOLDING_REGISTER_ADDRESSES['channel_<x>_start']
ChannelStart(channel_letter) ==
    IF channel_letter = "A" THEN 12
    ELSE IF channel_letter = "B" THEN 42
    ELSE IF channel_letter = "C" THEN 72
    ELSE 102

\* the registers of one slot: the weight in two, the grade in one
RegistersPerSlot == 3

\* set_channel_grade: the arguments are accepted (line 446)
ValidGradeArgs(channel_letter, sequence) ==
    channel_letter \in Lines /\ sequence >= 1 /\ sequence <= SlotsPerChannel

\* set_channel_grade writing the first register of the slot
WeightAddress(channel_letter, sequence) ==
    ChannelStart(channel_letter) + (sequence - 1) * RegistersPerSlot

\* set_channel_grade: grade_addr = start_address + (sequence - 1) * 3 + 2
GradeAddress(channel_letter, sequence) ==
    ChannelStart(channel_letter) + (sequence - 1) * RegistersPerSlot + 2

\* get_all_channels_grades_data lines 380-382: the one read starts at the
\* lowest channel start and ends behind the block of the highest one
ChannelStarts == {ChannelStart(c) : c \in Lines}
MinAddress == CHOOSE a \in ChannelStarts : \A b \in ChannelStarts : a <= b
MaxAddress ==
    (CHOOSE a \in ChannelStarts : \A b \in ChannelStarts : a >= b)
       + SlotsPerChannel * RegistersPerSlot
TotalRegisters == MaxAddress - MinAddress
BulkAddresses == MinAddress..(MaxAddress - 1)

\* BinaryPayloadDecoder.fromRegisters(two registers, Big, Big).decode_32bit_int()
\* (two's complement: a high register from 32768 on carries the sign)
Decode32BitInt(high, low) ==
    IF high >= 32768 THEN (high - 65536) * 65536 + low ELSE high * 65536 + low

\* len(all_registers[offset:offset + count])
SliceLen(length, offset, count) ==
    LET stop == IF offset + count < length THEN offset + count ELSE length
    IN  IF stop > offset THEN stop - offset ELSE 0

GradeRecord(sequence, weight, grade, address) ==
    [sequence |-> sequence, weight |-> weight, grade |-> grade, address |-> address]

\* lines 392-429: one channel out of the registers read, None when its 30
\* registers are not all there
DecodeChannel(all_registers, channel_letter) ==
    LET start_address == ChannelStart(channel_letter)
        offset == start_address - MinAddress
        block == SlotsPerChannel * RegistersPerSlot
    IN  IF SliceLen(Len(all_registers), offset, block) < block
        THEN ChannelNone
        ELSE ChannelData([n \in 1..SlotsPerChannel |->
                LET base_index == (n - 1) * RegistersPerSlot
                IN  GradeRecord(n,
                       Decode32BitInt(all_registers[offset + base_index + 1],
                                      all_registers[offset + base_index + 2]),
                       all_registers[offset + base_index + 3],
                       start_address + base_index + 2)])

\* _read_holding_registers returned None
NoResponse == [ok |-> FALSE, registers |-> <<>>]

\* lines 385-431: response.ok is False when _read_holding_registers
\* returned None
AllChannelsGradesData(response) ==
    IF ~response.ok \/ response.registers = <<>>
    THEN [c \in Lines |-> ChannelNone]
    ELSE [c \in Lines |-> DecodeChannel(response.registers, c)]

\* the threads that call the communicator
PThreads == {"t1", "t2"}

\* the registers the calling threads read and write: the control and the
\* status register and the grade of slot 1 of channel A
PRegisters == {CONTROL_REGISTER, STATUS_REGISTER, GradeAddress("A", 1)}

NoOp ==
    [kind |-> "none", addr |-> 0, bit |-> 0, value |-> FALSE, phase |-> 0, before |-> 0]

NoRequest == [rd |-> 0, wr |-> 0, err |-> FALSE]

\* __init__: client None, nobody in a call; the registers are the controller's
PlcIdle ==
    /\ p_lock = "free"
    /\ p_pc = [t \in PThreads |-> "idle"]
    /\ p_op = [t \in PThreads |-> NoOp]
    /\ p_val = [t \in PThreads |-> 0]
    /\ p_req = [t \in PThreads |-> 0]
    /\ p_ret = [t \in PThreads |-> [tag |-> "None", val |-> FALSE]]
    /\ p_wire = {}
    /\ p_open = FALSE
    /\ p_call = [t \in PThreads |-> NoRequest]
    /\ p_regs = [a \in PRegisters |-> 0]

-----------------------------------------------------------------------------
(* Inputs and the state as constructed *)

\* the inputs the template is evaluated on
Weights == {150, 450, 520, 600, 799, 3000}
Waters == {-100, 12, 22, 40, 59}
Seconds == {0, 1, 58, 59}

TIdle == [called |-> FALSE, template |-> "1", weight |-> 0, water |-> 0, second |-> 0,
          result |-> NoneV]

\* the configurations the manager is loaded with: weightOffset, waterOffset,
\* curtemplateId ("9" names no template)
Configs == {<<0, 1, "1">>, <<0, 0, "1">>, <<1, 0, "1">>, <<0, 1, "9">>}

\* what the sensors report: grams of weight, hundredths of content
DLines == {"A", "B"}
DWeights == {450, 600}
DWaters(l) == IF l = "A" THEN {-50, 4050} ELSE {1250}
DSeconds == {1}

DIdle == [called |-> FALSE, line |-> "A", name |-> "weight", value |-> 0, position |-> 0,
          result |-> NoneV, evaluated |-> FALSE, weight_arg |-> 0, water_arg |-> 0,
          miss |-> FALSE, pre_weight |-> <<>>, pre_water |-> <<>>]

DataIdle ==
    /\ weight_offset = 0 /\ water_offset = 0 /\ cur_template_id = "1"
    /\ weight_queue = [l \in Lines |-> NoQueue]
    /\ water_queue = [l \in Lines |-> NoQueue]
    /\ d_calls = 0
    /\ d_last = DIdle

\* the override tasks that are submitted: target_count, sort_channel, target_channel
TaskInputs == {<<1, 100, "A">>, <<1, 7, "A">>, <<2, 6, "B">>}

\* the slots the controller reports as waiting for a grade
PendSets == {{}, {<<"A", 1>>, <<"A", 2>>}, {<<"A", 1>>, <<"B", 1>>}}

SlotWeight(c, i) ==
    IF <<c, i>> = <<"A", 1>> THEN 150
    ELSE IF <<c, i>> = <<"A", 2>> THEN 600
    ELSE IF <<c, i>> = <<"B", 1>> THEN 450
    ELSE 0

\* an answer to the bulk read: the slots of pend are pending, the others
\* carry the lane they were given before
Registers(pend) ==
    [ok |-> TRUE,
     weight |-> [c \in Lines |-> [i \in 1..SlotsPerChannel |-> SlotWeight(c, i)]],
     grade |-> [c \in Lines |-> [i \in 1..SlotsPerChannel |->
                    IF <<c, i>> \in pend THEN PENDING ELSE 3]]]

ReadFailed == [ok |-> FALSE, weight |-> <<>>, grade |-> <<>>]

ReadInputs == {ReadFailed} \cup {Registers(pend) : pend \in PendSets}

SSeconds == {0, 1}

\* weightOffset, waterOffset, curtemplateId of the sorter's DataManager; the
\* template only matters where items are graded by measurement
SConfigs(use) ==
    IF use = "weigh" THEN {<<0, 1, "2">>, <<0, 1, "3">>}
    ELSE IF use = "both" THEN {<<0, 1, "3">>}
    ELSE {<<0, 1, "2">>}

RangeInputs == {<<[min |-> 0, max |-> 1000, grade |-> 1]>>}

StatsZero ==
    [custom_sorted_count |-> 0, missed_tasks |-> 0, cache_hits |-> 0,
     batch_writes |-> 0, batch_write_failures |-> 0]

\* CachedSortingTaskManager.__init__ with a fresh Counter
SorterIdle ==
    /\ running = FALSE
    /\ counter = 0 /\ _count = 0
    /\ tasks = <<>> /\ custom_tasks = <<>>
    /\ enable_weight_sorting = FALSE /\ enable_custom_sorting = FALSE
    /\ weight_ranges = <<>>
    /\ cached_channels_data = CacheNone
    /\ stats = StatsZero
    /\ loop_count = 0
    /\ c_read = CacheNone
    /\ c_write = "none"
    /\ applied = {}

\* the manager's lock as constructed, and no thread in any call
ApiIdle == [at |-> "idle", op |-> "none", arg |-> <<>>]
NoAccess == [who |-> "none", field |-> "none", line |-> 0, held |-> TRUE]
LocalsIdle == [data_modified |-> FALSE, current_count |-> 0]
LockIdle ==
    /\ m_lock = "free"
    /\ m_pc = [loop |-> "idle", api |-> ApiIdle]
    /\ m_access = NoAccess
    /\ m_local = LocalsIdle

\* no scan of the weight ranges made yet
WIdle == [called |-> FALSE, weight |-> 0, written |-> FALSE, grade |-> 0, processed |-> 0]
RangesIdle == w_last = WIdle

\* WeightGradeConfig(grade_id, weight_threshold, kick_channel, enabled)
WeightGradeConfig(grade_id, weight_threshold, kick_channel, enabled) ==
    [grade_id |-> grade_id, weight_threshold |-> weight_threshold,
     kick_channel |-> kick_channel, enabled |-> enabled]

\* self.configs.sort(key=weight_threshold) of WeightConfigSet.__post_init__:
\* a stable sort
RECURSIVE InsertByThreshold(_, _)
InsertByThreshold(sorted, config) ==
    IF sorted = <<>> THEN <<config>>
    ELSE IF Head(sorted).weight_threshold <= config.weight_threshold
         THEN <<Head(sorted)>> \o InsertByThreshold(Tail(sorted), config)
         ELSE <<config>> \o sorted

RECURSIVE SortByThreshold(_)
SortByThreshold(configs) ==
    IF configs = <<>> THEN <<>>
    ELSE InsertByThreshold(SortByThreshold(SubSeq(configs, 1, Len(configs) - 1)),
                           configs[Len(configs)])

WeightConfigSet(configs, version) ==
    [none |-> FALSE, configs |-> SortByThreshold(configs), version |-> version]

\* None where a WeightConfigSet is expected
NoConfigSet == [none |-> TRUE, configs |-> <<>>, version |-> 0]

\* _create_default_config: the three default grades
DefaultConfigs ==
    <<WeightGradeConfig(1, 50, 1, TRUE), WeightGradeConfig(2, 100, 2, TRUE),
      WeightGradeConfig(3, 150, 3, TRUE)>>

Services == {"WeightDetectionService", "AsyncWeightDetectionService"}

NoConfigCall == [service |-> "none", op |-> "none", ok |-> TRUE]

\* both services constructed on an empty store: the first reload_config
\* saves the default configuration, the second one loads it
ConfigIdle ==
    /\ g_store = WeightConfigSet(DefaultConfigs, 1)
    /\ g_cur = [s \in Services |-> WeightConfigSet(DefaultConfigs, 1)]
    /\ g_last = NoConfigCall
    /\ g_calls = 0

\* the threads that call the Counter
KThreads == {1, 2}

KNoOp == [kind |-> "none", value |-> 0, callback |-> "none"]
KNoLocals == [old_value |-> 0, new_value |-> 0, replaced |-> 0, i |-> 0]

\* Counter.__init__(0)
CounterIdle ==
    /\ k_value = 0 /\ k_lock = 0 /\ k_observers = <<>>
    /\ k_pc = [t \in KThreads |-> "idle"]
    /\ k_op = [t \in KThreads |-> KNoOp]
    /\ k_loc = [t \in KThreads |-> KNoLocals]
    /\ k_seen = [t \in KThreads |-> <<>>]
    /\ k_ret = [t \in KThreads |-> -1]
    /\ k_expect = 0 /\ k_calls = 0

\* an AlignedQueue shared by a sensor thread and the orchestrator, as built
RaceIdle ==
    /\ r_queue = <<>> /\ r_pc = "idle" /\ r_t = 0 /\ r_head = 0
    /\ r_ret = [called |-> FALSE, t |-> 0, result |-> NoItem]
    /\ r_lost = {} /\ r_puts = 0 /\ r_calls = 0

\* the threads start() can create
LThreads == 1..MaxThreads

\* __init__ lines 46-47: running False, thread None
LifeIdle ==
    /\ thread = 0
    /\ l_pc = [t \in LThreads |-> "unborn"]
    /\ l_out = [t \in LThreads |-> "none"]
    /\ s_pc = "idle"
    /\ s_last = "none"

\* the components a behaviour does not exercise stay as constructed
QueueIdle ==
    /\ my_queue = <<>> /\ q_max = 1 /\ q_serial = 0 /\ q_gone = {} /\ q_floor = -1
    /\ q_mono = TRUE /\ q_lastPut = -1
    /\ q_last = [op |-> "init", arg |-> 0, pre |-> <<>>, result |-> NoItem,
                 stale |-> <<>>, floor |-> -1]

-----------------------------------------------------------------------------
(* The free-standing queue *)

InitQueue ==
    /\ LockIdle /\ PlcIdle /\ LifeIdle /\ RangesIdle /\ ConfigIdle /\ CounterIdle /\ RaceIdle
    /\ unit = "queue"
    /\ q_max \in 1..MaxLen
    /\ my_queue = <<>>
    /\ q_serial = 0
    /\ q_last = [op |-> "init", arg |-> 0, pre |-> <<>>, result |-> NoItem,
                 stale |-> <<>>, floor |-> -1]
    /\ q_gone = {}
    /\ q_floor = -1
    /\ q_mono = TRUE
    /\ q_lastPut = -1
    /\ t_last = TIdle
    /\ DataIdle
    /\ SorterIdle

QPut(p) ==
    /\ unit = "queue"
    /\ q_serial < MaxPuts
    /\ q_serial' = q_serial + 1
    /\ my_queue' = Put(my_queue, q_max, Entry(q_serial + 1, p))
    /\ q_last' = [op |-> "put", arg |-> p, pre |-> my_queue, result |-> NoItem,
                  stale |-> <<>>, floor |-> q_floor]
    /\ q_mono' = (q_mono /\ p >= q_lastPut)
    /\ q_lastPut' = p
    /\ UNCHANGED <<unit, wcvars, ctrvars, rvars, wvars, lfvars, lkvars, pvars, q_max, q_gone, q_floor, tvars, dvars, svars>>

QGetAligned(t) ==
    /\ unit = "queue"
    /\ LET r == GetAligned(my_queue, t)
       IN  /\ my_queue' = r.queue
           /\ q_last' = [op |-> "get", arg |-> t, pre |-> my_queue,
                         result |-> r.result, stale |-> r.stale, floor |-> q_floor]
           /\ q_gone' = q_gone \cup {e.data : e \in SeqRange(r.stale)}
           /\ q_floor' = SeqMax(r.stale \o r.result, q_floor)
    /\ UNCHANGED <<unit, wcvars, ctrvars, rvars, wvars, lfvars, lkvars, pvars, q_max, q_serial, q_mono, q_lastPut, tvars, dvars, svars>>

NextQueue ==
    \/ \E p \in Positions : QPut(p)
    \/ \E t \in Positions : QGetAligned(t)

SpecQueue == InitQueue /\ [][NextQueue]_vars

-----------------------------------------------------------------------------
(* Template.get_channel on its own *)

InitTemplate ==
    /\ LockIdle /\ PlcIdle /\ LifeIdle /\ RangesIdle /\ ConfigIdle /\ CounterIdle /\ RaceIdle
    /\ unit = "template"
    /\ QueueIdle
    /\ DataIdle
    /\ SorterIdle
    /\ t_last = TIdle

Evaluate(id, w, x, s) ==
    /\ unit = "template"
    /\ t_last' = [called |-> TRUE, template |-> id, weight |-> w, water |-> x,
                  second |-> s, result |-> GetChannel(Templates[id], w, x, s)]
    /\ UNCHANGED <<unit, wcvars, ctrvars, rvars, wvars, lfvars, lkvars, pvars, qvars, dvars, svars>>

NextTemplate ==
    \E id \in TemplateIds, w \in Weights, x \in Waters, s \in Seconds : Evaluate(id, w, x, s)

SpecTemplate == InitTemplate /\ [][NextTemplate]_vars

-----------------------------------------------------------------------------
(* The DataManager on its own *)

TheDm == Dm(weight_offset, water_offset, cur_template_id, weight_queue, water_queue)

InitData ==
    /\ LockIdle /\ PlcIdle /\ LifeIdle /\ RangesIdle /\ ConfigIdle /\ CounterIdle /\ RaceIdle
    /\ unit = "data"
    /\ QueueIdle
    /\ SorterIdle
    /\ t_last = TIdle
    /\ \E c \in Configs :
        /\ weight_offset = c[1] /\ water_offset = c[2] /\ cur_template_id = c[3]
    /\ weight_queue = [l \in Lines |-> NoQueue]
    /\ water_queue = [l \in Lines |-> NoQueue]
    /\ d_calls = 0
    /\ d_last = DIdle

DSetValue(line_id, value_name, value, position, second) ==
    /\ unit = "data"
    /\ d_calls < MaxCalls
    /\ d_calls' = d_calls + 1
    /\ LET r == SetValue(TheDm, line_id, value_name, value, position, second)
       IN  /\ weight_queue' = r.dm.weight_queue
           /\ water_queue' = r.dm.water_queue
           /\ d_last' = [called |-> TRUE, line |-> line_id, name |-> value_name,
                         value |-> value, position |-> position, result |-> r.result,
                         evaluated |-> r.evaluated, weight_arg |-> r.weight_arg,
                         water_arg |-> r.water_arg, miss |-> r.miss,
                         pre_weight |-> weight_queue[line_id].items,
                         pre_water |-> water_queue[line_id].items]
    /\ UNCHANGED <<unit, wcvars, ctrvars, rvars, wvars, lfvars, lkvars, pvars, qvars, tvars, weight_offset, water_offset, cur_template_id, svars>>

NextData ==
    \/ \E l \in DLines, v \in DWeights, p \in Positions, s \in DSeconds :
            DSetValue(l, "weight", v, p, s)
    \/ \E l \in DLines, p \in Positions, s \in DSeconds : \E v \in DWaters(l) :
            DSetValue(l, "water", v, p, s)
    \/ \E l \in DLines : DSetValue(l, "color", 0, 0, 0)

SpecData == InitData /\ [][NextData]_vars

\* both components of the alignment mechanism, one per behaviour
SpecAlign == (InitQueue \/ InitData) /\ [][NextQueue \/ NextData]_vars

-----------------------------------------------------------------------------
(* The sorting task manager *)

\* what the plant uses the manager for: position-triggered overrides, or
\* grading by measurement
Uses == {"override", "weigh"}

Init ==
    /\ LockIdle /\ PlcIdle /\ LifeIdle /\ RangesIdle /\ ConfigIdle /\ CounterIdle /\ RaceIdle
    /\ unit \in Uses
    /\ QueueIdle
    /\ SorterIdle
    /\ t_last = TIdle
    /\ \E c \in SConfigs(unit) :
        /\ weight_offset = c[1] /\ water_offset = c[2] /\ cur_template_id = c[3]
    /\ weight_queue = [l \in Lines |-> NoQueue]
    /\ water_queue = [l \in Lines |-> NoQueue]
    /\ d_calls = 0
    /\ d_last = DIdle

\* start()
Start ==
    /\ unit \in Uses \cup {"both"}
    /\ ~running
    /\ running' = TRUE
    /\ UNCHANGED <<unit, wcvars, ctrvars, rvars, wvars, lfvars, lkvars, pvars, qvars, tvars, dvars, cntvars, taskvars, cfgvars, loopvars>>

\* configure_weight_sorting(weight_ranges, enable)
ConfigureWeightSorting(ranges, enable) ==
    /\ unit \in {"weigh", "both"}
    /\ weight_ranges' = ranges
    /\ enable_weight_sorting' = enable
    /\ UNCHANGED <<unit, wcvars, ctrvars, rvars, wvars, lfvars, lkvars, pvars, qvars, tvars, dvars, running, cntvars, taskvars,
                   enable_custom_sorting, loopvars>>

\* set_weight_sorting_enabled(enabled)
SetWeightSortingEnabled(enabled) ==
    /\ unit \in {"weigh", "both"}
    /\ enable_weight_sorting' = enabled
    /\ UNCHANGED <<unit, wcvars, ctrvars, rvars, wvars, lfvars, lkvars, pvars, qvars, tvars, dvars, running, cntvars, taskvars,
                   enable_custom_sorting, weight_ranges, loopvars>>

\* set_custom_sorting_enabled(enabled)
SetCustomSortingEnabled(enabled) ==
    /\ unit \in {"override", "both"}
    /\ enable_custom_sorting' = enabled
    /\ UNCHANGED <<unit, wcvars, ctrvars, rvars, wvars, lfvars, lkvars, pvars, qvars, tvars, dvars, running, cntvars, taskvars,
                   enable_weight_sorting, weight_ranges, loopvars>>

\* add_custom_task(target_count, sort_channel, target_channel)
AddCustomTask(target_count, sort_channel, target_channel) ==
    /\ unit \in {"override", "both"}
    /\ Len(tasks) < MaxTasks
    /\ tasks' = Append(tasks, CustomSortingTask(target_count, sort_channel,
                                                target_channel))
    /\ custom_tasks' = SortByTarget(tasks', Append(custom_tasks, Len(tasks')))
    /\ UNCHANGED <<unit, wcvars, ctrvars, rvars, wvars, lfvars, lkvars, pvars, qvars, tvars, dvars, running, cntvars, cfgvars, loopvars>>

\* increment_count(): self._count = self.counter.tick(1)
IncrementCount ==
    /\ unit \in Uses \cup {"both"}
    /\ counter < MaxCount
    /\ counter' = counter + 1
    /\ _count' = counter'
    /\ UNCHANGED <<unit, wcvars, ctrvars, rvars, wvars, lfvars, lkvars, pvars, qvars, tvars, dvars, running, taskvars, cfgvars, loopvars>>

\* reset_count(): self.counter.reset()
ResetCount ==
    /\ unit \in Uses \cup {"both"}
    /\ counter' = 0
    /\ UNCHANGED <<unit, wcvars, ctrvars, rvars, wvars, lfvars, lkvars, pvars, qvars, tvars, dvars, running, _count, taskvars, cfgvars,
                   loopvars>>

\* a write-back that counts a success whatever the controller answered
BatchWriteAlwaysCounted(st, success) == [st EXCEPT !.batch_writes = @ + 1]

\* plc.batch_write_from_cached_data(cached): whether the write went through
BatchWriteFromCachedData(st, success) ==
    IF success THEN [st EXCEPT !.batch_writes = @ + 1]
    ELSE [st EXCEPT !.batch_write_failures = @ + 1]

\* one iteration of _monitor_loop_cached: regs is the controller's answer to
\* the bulk read, second the wall-clock second, write_ok the outcome of the
\* write (if one is made)
MonitorCycle(regs, second, write_ok) ==
    /\ unit \in Uses \cup {"both"}
    /\ running
    /\ stats.cache_hits < MaxCycles
    /\ \E read \in {GetAllChannelsGradesData(regs)} :
       \E cu \in {IF enable_custom_sorting
                  THEN ProcessCustomSortingCached(enable_custom_sorting, read, tasks,
                           custom_tasks, counter, stats.custom_sorted_count,
                           stats.missed_tasks)
                  ELSE [data |-> read, heap |-> tasks, data_modified |-> FALSE,
                        custom_tasks |-> custom_tasks,
                        custom_sorted_count |-> stats.custom_sorted_count,
                        missed_tasks |-> stats.missed_tasks, applied |-> <<>>]} :
       \E we \in {IF enable_weight_sorting
                  THEN ProcessWeightSortingCached(enable_weight_sorting, weight_ranges,
                           cu.data, TheDm, _count, second)
                  ELSE [data |-> cu.data, dm |-> TheDm, data_modified |-> FALSE,
                        raised |-> FALSE, weighed |-> <<>>]} :
       \E st1 \in {[stats EXCEPT !.cache_hits = @ + 1,
                                 !.custom_sorted_count = cu.custom_sorted_count,
                                 !.missed_tasks = cu.missed_tasks]} :
           /\ c_read' = read
           /\ cached_channels_data' = we.data
           /\ tasks' = cu.heap
           /\ custom_tasks' = cu.custom_tasks
           /\ weight_queue' = we.dm.weight_queue
           /\ water_queue' = we.dm.water_queue
           /\ stats' = IF ~we.raised /\ (cu.data_modified \/ we.data_modified)
                       THEN BatchWriteFromCachedData(st1, write_ok) ELSE st1
           /\ c_write' = IF ~we.raised /\ (cu.data_modified \/ we.data_modified)
                         THEN (IF write_ok THEN "ok" ELSE "failed") ELSE "none"
           /\ loop_count' = IF we.raised THEN loop_count ELSE loop_count + 1
           /\ applied' = applied \cup SeqRange(cu.applied)
    /\ UNCHANGED <<unit, wcvars, ctrvars, rvars, wvars, lfvars, lkvars, pvars, qvars, tvars, weight_offset, water_offset, cur_template_id,
                   d_calls, d_last, running, cntvars, cfgvars>>

Next ==
    \/ Start
    \/ \E r \in RangeInputs, e \in BOOLEAN : ConfigureWeightSorting(r, e)
    \/ \E e \in BOOLEAN : SetWeightSortingEnabled(e)
    \/ \E e \in BOOLEAN : SetCustomSortingEnabled(e)
    \/ \E t \in TaskInputs : AddCustomTask(t[1], t[2], t[3])
    \/ IncrementCount
    \/ ResetCount
    \/ \E regs \in ReadInputs, s \in SSeconds, w \in BOOLEAN : MonitorCycle(regs, s, w)

Spec == Init /\ [][Next]_vars

\* the manager in service with both features switched on: started, weight
\* sorting configured and enabled, override sorting enabled
InitBoth ==
    /\ LockIdle /\ PlcIdle /\ LifeIdle /\ RangesIdle /\ ConfigIdle /\ CounterIdle /\ RaceIdle
    /\ unit = "both"
    /\ QueueIdle
    /\ t_last = TIdle
    /\ \E c \in SConfigs(unit) :
        /\ weight_offset = c[1] /\ water_offset = c[2] /\ cur_template_id = c[3]
    /\ weight_queue = [l \in Lines |-> NoQueue]
    /\ water_queue = [l \in Lines |-> NoQueue]
    /\ d_calls = 0
    /\ d_last = DIdle
    /\ running = TRUE
    /\ counter = 0 /\ _count = 0
    /\ tasks = <<>> /\ custom_tasks = <<>>
    /\ enable_weight_sorting = TRUE /\ enable_custom_sorting = TRUE
    /\ \E r \in RangeInputs : weight_ranges = r
    /\ cached_channels_data = CacheNone
    /\ stats = StatsZero
    /\ loop_count = 0
    /\ c_read = CacheNone
    /\ c_write = "none"
    /\ applied = {}

NextBoth ==
    \/ \E t \in TaskInputs : AddCustomTask(t[1], t[2], t[3])
    \/ IncrementCount
    \/ \E regs \in ReadInputs, s \in SSeconds, w \in BOOLEAN : MonitorCycle(regs, s, w)

SpecBoth == InitBoth /\ [][NextBoth]_vars

-----------------------------------------------------------------------------
(* The manager's lock: the monitor thread and a calling thread, step by step *)

\* what the bulk read answers in these behaviours
LockReads == {Registers({<<"A", 1>>})}

\* the calls the other thread makes, with their arguments
ApiCalls ==
    {<<"add_custom_task", t>> : t \in {<<1, 7, "A">>}}
      \cup {<<"set_custom_sorting_enabled", TRUE>>}
      \cup {<<"set_weight_sorting_enabled", FALSE>>}
      \cup {<<"configure_weight_sorting", r>> : r \in RangeInputs}
      \cup {<<"get_statistics", <<>>>>}

\* an access to one of the shared fields at a source line, by a thread
Access(who, field, line) ==
    [who |-> who, field |-> field, line |-> line, held |-> m_lock = who]

InitLock ==
    /\ unit = "lock"
    /\ QueueIdle /\ DataIdle /\ SorterIdle /\ t_last = TIdle
    /\ LockIdle /\ PlcIdle /\ LifeIdle /\ RangesIdle /\ ConfigIdle /\ CounterIdle /\ RaceIdle

\* start(): the monitor thread begins
LStart ==
    /\ unit = "lock" /\ ~running /\ m_pc.loop = "idle"
    /\ running' = TRUE
    /\ m_pc' = [m_pc EXCEPT !.loop = "read"]
    /\ UNCHANGED <<unit, wcvars, ctrvars, rvars, wvars, lfvars, qvars, tvars, dvars, cntvars, taskvars, cfgvars, loopvars,
                   m_lock, m_access, m_local, pvars>>

\* lines 339-352: the bulk read, cache_hits, data_modified = False
LRead(regs) ==
    /\ unit = "lock" /\ m_pc.loop = "read"
    /\ stats.cache_hits < MaxCycles
    /\ c_read' = GetAllChannelsGradesData(regs)
    /\ cached_channels_data' = GetAllChannelsGradesData(regs)
    /\ stats' = [stats EXCEPT !.cache_hits = @ + 1]
    /\ c_write' = "none"
    /\ m_local' = [m_local EXCEPT !.data_modified = FALSE]
    /\ m_pc' = [m_pc EXCEPT !.loop = "if_custom"]
    /\ UNCHANGED <<unit, wcvars, ctrvars, rvars, wvars, lfvars, qvars, tvars, dvars, running, cntvars, taskvars, cfgvars,
                   loop_count, applied, m_lock, m_access, pvars>>

\* line 356: if self.enable_custom_sorting
LIfCustom ==
    /\ unit = "lock" /\ m_pc.loop = "if_custom"
    /\ m_access' = Access("loop", "enable_custom_sorting", 356)
    /\ m_pc' = [m_pc EXCEPT !.loop = IF enable_custom_sorting THEN "custom_guard"
                                     ELSE "if_weight"]
    /\ UNCHANGED <<unit, wcvars, ctrvars, rvars, wvars, lfvars, qvars, tvars, dvars, svars, m_lock, m_local, pvars>>

\* lines 248-251: the guard of _process_custom_sorting_cached, current_count
LCustomGuard ==
    /\ unit = "lock" /\ m_pc.loop = "custom_guard"
    /\ m_access' = Access("loop", "enable_custom_sorting", 248)
    /\ m_local' = [m_local EXCEPT !.current_count = counter]
    /\ m_pc' = [m_pc EXCEPT !.loop = IF enable_custom_sorting THEN "custom_lock"
                                     ELSE "if_weight"]
    /\ UNCHANGED <<unit, wcvars, ctrvars, rvars, wvars, lfvars, qvars, tvars, dvars, svars, m_lock, pvars>>

\* line 254: with self._lock
LCustomAcquire ==
    /\ unit = "lock" /\ m_pc.loop = "custom_lock"
    /\ m_lock = "free"
    /\ m_lock' = "loop"
    /\ m_pc' = [m_pc EXCEPT !.loop = "custom_body"]
    /\ UNCHANGED <<unit, wcvars, ctrvars, rvars, wvars, lfvars, qvars, tvars, dvars, svars, m_access, m_local, pvars>>

\* lines 255-296: the task loop and the removal, inside the lock
LCustomBody ==
    /\ unit = "lock" /\ m_pc.loop = "custom_body"
    /\ LET cu == ProcessCustomSortingCached(TRUE, cached_channels_data, tasks,
                     custom_tasks, m_local.current_count, stats.custom_sorted_count,
                     stats.missed_tasks)
       IN  /\ cached_channels_data' = cu.data
           /\ tasks' = cu.heap
           /\ custom_tasks' = cu.custom_tasks
           /\ stats' = [stats EXCEPT !.custom_sorted_count = cu.custom_sorted_count,
                                     !.missed_tasks = cu.missed_tasks]
           /\ applied' = applied \cup SeqRange(cu.applied)
           /\ m_local' = [m_local EXCEPT !.data_modified = cu.data_modified]
    /\ m_access' = Access("loop", "custom_tasks", 257)
    /\ m_pc' = [m_pc EXCEPT !.loop = "custom_unlock"]
    /\ UNCHANGED <<unit, wcvars, ctrvars, rvars, wvars, lfvars, qvars, tvars, dvars, running, cntvars, cfgvars, loop_count,
                   c_read, c_write, m_lock, pvars>>

\* leaving the with block
LCustomRelease ==
    /\ unit = "lock" /\ m_pc.loop = "custom_unlock"
    /\ m_lock' = "free"
    /\ m_pc' = [m_pc EXCEPT !.loop = "if_weight"]
    /\ UNCHANGED <<unit, wcvars, ctrvars, rvars, wvars, lfvars, qvars, tvars, dvars, svars, m_access, m_local, pvars>>

\* line 361: if self.enable_weight_sorting
LIfWeight ==
    /\ unit = "lock" /\ m_pc.loop = "if_weight"
    /\ m_access' = Access("loop", "enable_weight_sorting", 361)
    /\ m_pc' = [m_pc EXCEPT !.loop = IF enable_weight_sorting THEN "weight" ELSE "write"]
    /\ UNCHANGED <<unit, wcvars, ctrvars, rvars, wvars, lfvars, qvars, tvars, dvars, svars, m_lock, m_local, pvars>>

\* lines 152-236: _process_weight_sorting_cached, its guard included
LWeight(second) ==
    /\ unit = "lock" /\ m_pc.loop = "weight"
    /\ m_access' = Access("loop", "weight_ranges", 152)
    /\ LET we == ProcessWeightSortingCached(enable_weight_sorting, weight_ranges,
                     cached_channels_data, TheDm, _count, second)
       IN  /\ cached_channels_data' = we.data
           /\ weight_queue' = we.dm.weight_queue
           /\ water_queue' = we.dm.water_queue
           /\ m_local' = [m_local EXCEPT
                             !.data_modified = @ \/ we.data_modified]
           /\ m_pc' = [m_pc EXCEPT !.loop = IF we.raised THEN "read" ELSE "write"]
    /\ UNCHANGED <<unit, wcvars, ctrvars, rvars, wvars, lfvars, qvars, tvars, weight_offset, water_offset, cur_template_id,
                   d_calls, d_last, running, cntvars, taskvars, cfgvars, stats,
                   loop_count, c_read, c_write, applied, m_lock, pvars>>

\* lines 366-383: the write-back if data_modified, loop_count
LWrite(write_ok) ==
    /\ unit = "lock" /\ m_pc.loop = "write"
    /\ stats' = IF m_local.data_modified
                THEN BatchWriteFromCachedData(stats, write_ok) ELSE stats
    /\ c_write' = IF m_local.data_modified
                  THEN (IF write_ok THEN "ok" ELSE "failed") ELSE "none"
    /\ loop_count' = loop_count + 1
    /\ m_pc' = [m_pc EXCEPT !.loop = "read"]
    /\ UNCHANGED <<unit, wcvars, ctrvars, rvars, wvars, lfvars, qvars, tvars, dvars, running, cntvars, taskvars, cfgvars,
                   cached_channels_data, c_read, applied, m_lock, m_access, m_local,
                   pvars>>

\* the other thread enters one of the calls
ACall(call) ==
    /\ unit = "lock" /\ m_pc.api.at = "idle"
    /\ call[1] = "add_custom_task" => Len(tasks) < MaxTasks
    /\ m_pc' = [m_pc EXCEPT !.api =
                   [at |-> IF call[1] = "get_statistics" THEN "stat_tasks" ELSE "lock",
                    op |-> call[1], arg |-> call[2]]]
    /\ UNCHANGED <<unit, wcvars, ctrvars, rvars, wvars, lfvars, qvars, tvars, dvars, svars, m_lock, m_access, m_local, pvars>>

\* with self._lock of the four mutators (lines 89, 99, 107, 113)
AAcquire ==
    /\ unit = "lock" /\ m_pc.api.at = "lock"
    /\ m_lock = "free"
    /\ m_lock' = "api"
    /\ m_pc' = [m_pc EXCEPT !.api.at = "body"]
    /\ UNCHANGED <<unit, wcvars, ctrvars, rvars, wvars, lfvars, qvars, tvars, dvars, svars, m_access, m_local, pvars>>

\* the assignments inside the lock (lines 90-91, 100-101, 108, 114)
ABody ==
    /\ unit = "lock" /\ m_pc.api.at = "body"
    /\ LET op == m_pc.api.op
           arg == m_pc.api.arg
       IN  /\ weight_ranges' = IF op = "configure_weight_sorting" THEN arg
                               ELSE weight_ranges
           /\ enable_weight_sorting' =
                 IF op = "configure_weight_sorting" THEN TRUE
                 ELSE IF op = "set_weight_sorting_enabled" THEN arg
                 ELSE enable_weight_sorting
           /\ enable_custom_sorting' =
                 IF op = "set_custom_sorting_enabled" THEN arg
                 ELSE enable_custom_sorting
           /\ tasks' = IF op = "add_custom_task"
                       THEN Append(tasks, CustomSortingTask(arg[1], arg[2], arg[3]))
                       ELSE tasks
           /\ custom_tasks' = IF op = "add_custom_task"
                              THEN SortByTarget(tasks', Append(custom_tasks, Len(tasks')))
                              ELSE custom_tasks
           /\ m_access' = Access("api",
                 IF op = "add_custom_task" THEN "custom_tasks"
                 ELSE IF op = "set_custom_sorting_enabled" THEN "enable_custom_sorting"
                 ELSE IF op = "set_weight_sorting_enabled" THEN "enable_weight_sorting"
                 ELSE "weight_ranges",
                 IF op = "add_custom_task" THEN 100
                 ELSE IF op = "set_custom_sorting_enabled" THEN 114
                 ELSE IF op = "set_weight_sorting_enabled" THEN 108
                 ELSE 90)
    /\ m_pc' = [m_pc EXCEPT !.api.at = "unlock"]
    /\ UNCHANGED <<unit, wcvars, ctrvars, rvars, wvars, lfvars, qvars, tvars, dvars, running, cntvars, loopvars, m_lock,
                   m_local, pvars>>

ARelease ==
    /\ unit = "lock" /\ m_pc.api.at = "unlock"
    /\ m_lock' = "free"
    /\ m_pc' = [m_pc EXCEPT !.api = ApiIdle]
    /\ UNCHANGED <<unit, wcvars, ctrvars, rvars, wvars, lfvars, qvars, tvars, dvars, svars, m_access, m_local, pvars>>

\* get_statistics (lines 531-560): custom_tasks at 535-537, the flags at
\* 542-543, weight_ranges at 544, then the return
AStatistics ==
    /\ unit = "lock" /\ m_pc.api.at \in {"stat_tasks", "stat_flags", "stat_ranges"}
    /\ m_access' =
          IF m_pc.api.at = "stat_tasks" THEN Access("api", "custom_tasks", 535)
          ELSE IF m_pc.api.at = "stat_flags"
               THEN Access("api", "enable_weight_sorting", 542)
               ELSE Access("api", "weight_ranges", 544)
    /\ m_pc' = [m_pc EXCEPT !.api =
                   IF m_pc.api.at = "stat_tasks" THEN [@ EXCEPT !.at = "stat_flags"]
                   ELSE IF m_pc.api.at = "stat_flags" THEN [@ EXCEPT !.at = "stat_ranges"]
                   ELSE ApiIdle]
    /\ UNCHANGED <<unit, wcvars, ctrvars, rvars, wvars, lfvars, qvars, tvars, dvars, svars, m_lock, m_local, pvars>>

\* increment_count() from the counting thread (the Counter has a lock of its
\* own): self._count = self.counter.tick(1)
AIncrementCount ==
    /\ unit = "lock" /\ counter < MaxCount
    /\ counter' = counter + 1
    /\ _count' = counter'
    /\ UNCHANGED <<unit, wcvars, ctrvars, rvars, wvars, lfvars, qvars, tvars, dvars, running, taskvars, cfgvars,
                   loopvars, lkvars, pvars>>

NextLock ==
    \/ LStart
    \/ \E regs \in LockReads : LRead(regs)
    \/ LIfCustom
    \/ LCustomGuard
    \/ LCustomAcquire
    \/ LCustomBody
    \/ LCustomRelease
    \/ LIfWeight
    \/ LWeight(0)
    \/ \E write_ok \in BOOLEAN : LWrite(write_ok)
    \/ \E call \in ApiCalls : ACall(call)
    \/ AAcquire
    \/ ABody
    \/ ARelease
    \/ AStatistics
    \/ AIncrementCount

SpecLock == InitLock /\ [][NextLock]_vars

-----------------------------------------------------------------------------
(* PLCCommunicator: two calling threads, step by step *)

\* what the control and the status register hold at the start
ControlInputs == {0, 42405}
StatusInputs == {2304}

\* the bit positions written and read directly
BitInputs == {0, 10, 15}

\* the calls a thread makes
\* (phase: 1 and 2 are the two writes of a pulse; before: the register as it
\* was when a pulse was called)
WriteBitOp(addr, bit, value) ==
    [kind |-> "write_bit", addr |-> addr, bit |-> bit, value |-> value, phase |-> 0,
     before |-> 0]
ReadBitOp(addr, bit) ==
    [kind |-> "read_bit", addr |-> addr, bit |-> bit, value |-> FALSE, phase |-> 0,
     before |-> 0]
\* remote_start, remote_stop, remote_reset, remote_clear:
\* _pulse_register_bit(CONTROL_REGISTER, CONTROL_BITS[name])
PulseNames == {"remote_start", "remote_stop", "remote_reset", "remote_clear"}
PulseOp(name) ==
    [kind |-> name, addr |-> CONTROL_REGISTER, bit |-> CONTROL_BITS[name],
     value |-> TRUE, phase |-> 1, before |-> 0]
RemoteStopOp == PulseOp("remote_stop")
StatusOp ==
    [kind |-> "get_system_status", addr |-> STATUS_REGISTER, bit |-> 0,
     value |-> FALSE, phase |-> 0, before |-> 0]
PlainOp(kind) ==
    [kind |-> kind, addr |-> 0, bit |-> 0, value |-> FALSE, phase |-> 0, before |-> 0]
\* set_channel_grade(channel_letter, sequence, grade) with accepted
\* arguments: _write_word(grade_addr, grade) (bit holds the word to write)
SetGradeOp(channel_letter, sequence, grade) ==
    [kind |-> "set_channel_grade", addr |-> GradeAddress(channel_letter, sequence),
     bit |-> grade, value |-> FALSE, phase |-> 0, before |-> 0]
\* set_channel_grade with arguments it refuses
RefusedOp == PlainOp("set_channel_grade_refused")

\* set_channel_grade(channel_letter, sequence, grade), lines 446-464
SetChannelGradeOp(channel_letter, sequence, grade) ==
    IF ValidGradeArgs(channel_letter, sequence)
    THEN SetGradeOp(channel_letter, sequence, grade)
    ELSE RefusedOp

\* get_all_channels_grades_data: _read_holding_registers(min_address,
\* total_registers) (bit holds the count)
BulkOp ==
    [kind |-> "get_all_channels_grades_data", addr |-> MinAddress,
     bit |-> TotalRegisters, value |-> FALSE, phase |-> 0, before |-> 0]

POps ==
    {WriteBitOp(CONTROL_REGISTER, b, v) : b \in BitInputs, v \in BOOLEAN}
      \cup {ReadBitOp(CONTROL_REGISTER, 10), RemoteStopOp, StatusOp}
      \cup {PlainOp(k) : k \in {"connect", "close", "is_connected"}}

\* two uses of the communicator: "plc", two threads and the calls of POps on
\* a few bits; "bit", one thread writing or pulsing any bit of a register
\* that holds one of BitRegisters
PUses == {"plc", "bit", "grades"}

\* what the grade blocks hold at the start: every register its own address,
\* or a weight of 450 (of -450) with the grade pending in every slot
GradePatterns == {"address", "pending", "negative"}
GradeRegisters(pattern) ==
    [a \in BulkAddresses \cup {CONTROL_REGISTER, STATUS_REGISTER} |->
        IF a \notin BulkAddresses THEN 0
        ELSE IF pattern = "address" THEN a
        ELSE LET field == (a - MinAddress) % RegistersPerSlot
             IN  IF field = 2 THEN PENDING
                 ELSE IF pattern = "pending" THEN (IF field = 0 THEN 0 ELSE 450)
                 ELSE (IF field = 0 THEN 65535 ELSE 65086)]

\* the lengths of the register list the one read is answered with
BulkLengths == {0, 100, TotalRegisters}

GradeOps ==
    {BulkOp} \cup {SetChannelGradeOp(c, n, 7) : c \in {"A", "D"},
                                               n \in {1, SlotsPerChannel}}
BitRegisters == {0, 1, 23130, 32768, 42405, 65535}
BitOps ==
    {WriteBitOp(CONTROL_REGISTER, b, v) : b \in 0..15, v \in BOOLEAN}
      \cup {PulseOp(name) : name \in PulseNames}
      \cup {SetChannelGradeOp("A", 1, 7), SetChannelGradeOp("A", SlotsPerChannel + 1, 7)}

\* what a call returns
RetNone == [tag |-> "None", val |-> FALSE]
RetBool(b) == [tag |-> "bool", val |-> b]
RetStatus(status) == [tag |-> "status", val |-> status]
RetGrades(all_data) == [tag |-> "grades", val |-> all_data]

IsPulse(op) == op.kind \in PulseNames
IsWrite(op) == op.kind = "write_bit" \/ IsPulse(op)

\* a pulse that clears the bit whatever the first write returned
PulseContinuesAlways(op, ret) == IsPulse(op) /\ op.phase = 1

\* _pulse_register_bit lines 186-188: after the first write returned True
\* the pulse sleeps and writes the bit a second time
PulseContinues(op, ret) == IsPulse(op) /\ op.phase = 1 /\ ret = RetBool(TRUE)

\* what the method returns to its caller: _pulse_register_bit returns True
\* if its second write returned True, and False otherwise (lines 186-190)
Returned(op, ret) ==
    IF IsPulse(op) THEN RetBool(op.phase = 2 /\ ret = RetBool(TRUE)) ELSE ret
IsRead(op) == op.kind \in {"read_bit", "get_system_status"}
IsWordWrite(op) == op.kind = "set_channel_grade"
\* the methods that return a bool: False where the others return None
ReturnsBool(op) == IsWrite(op) \/ IsWordWrite(op)

\* an error response followed by the same request again
RetryAfterError == "in"

\* if response.isError(): return None / return False (lines 141, 153, 169):
\* the helper leaves the with block
AfterError == "out"

\* threading.Lock.acquire that does not wait for the holder
CanAcquireAlways(holder) == TRUE

\* threading.Lock.acquire: only a free lock is taken
CanAcquire(holder) == holder = "free"

InitPlc ==
    /\ unit \in PUses
    /\ QueueIdle /\ DataIdle /\ SorterIdle /\ t_last = TIdle
    /\ LockIdle /\ LifeIdle /\ RangesIdle /\ ConfigIdle /\ CounterIdle /\ RaceIdle
    /\ p_lock = "free"
    /\ p_pc = [t \in PThreads |-> "idle"]
    /\ p_op = [t \in PThreads |-> NoOp]
    /\ p_val = [t \in PThreads |-> 0]
    /\ p_req = [t \in PThreads |-> 0]
    /\ p_ret = [t \in PThreads |-> RetNone]
    /\ p_wire = {}
    /\ p_open = FALSE
    /\ p_call = [t \in PThreads |-> NoRequest]
    /\ IF unit = "grades"
       THEN \E pattern \in GradePatterns : p_regs = GradeRegisters(pattern)
       ELSE \E c \in (IF unit = "plc" THEN ControlInputs ELSE BitRegisters),
               s \in StatusInputs :
               p_regs = [a \in PRegisters |->
                            IF a = CONTROL_REGISTER THEN c
                            ELSE IF a = STATUS_REGISTER THEN s ELSE PENDING]

\* a thread enters a method of the communicator
PCall(t, op) ==
    /\ unit \in PUses /\ p_pc[t] = "idle"
    /\ unit = "plc" => op \in POps
    /\ unit = "bit" => /\ t = "t1" /\ op \in BitOps
                       /\ p_regs[CONTROL_REGISTER] \in BitRegisters
    /\ unit = "grades" => t = "t1" /\ op \in GradeOps
    /\ IF op = RefusedOp
       THEN /\ p_ret' = [p_ret EXCEPT ![t] = RetBool(FALSE)]
            /\ UNCHANGED <<p_op, p_pc>>
       ELSE /\ p_op' = [p_op EXCEPT ![t] =
                    IF IsPulse(op) THEN [op EXCEPT !.before = p_regs[op.addr]] ELSE op]
            /\ p_ret' = [p_ret EXCEPT ![t] = RetNone]
            /\ p_pc' = [p_pc EXCEPT ![t] = "lock"]
    /\ UNCHANGED <<unit, wcvars, ctrvars, rvars, wvars, lfvars, qvars, tvars, dvars, svars, lkvars, p_lock, p_val, p_req,
                   p_wire, p_open, p_regs, p_call>>

\* with self._lock
PAcquire(t) ==
    /\ unit \in PUses /\ p_pc[t] = "lock"
    /\ CanAcquire(p_lock)
    /\ p_lock' = t
    /\ p_pc' = [p_pc EXCEPT ![t] = "in"]
    /\ UNCHANGED <<unit, wcvars, ctrvars, rvars, wvars, lfvars, qvars, tvars, dvars, svars, lkvars, p_op, p_val, p_req,
                   p_ret, p_wire, p_open, p_regs, p_call>>

\* inside the lock up to the first request: close, is_connected and connect
\* return; the others get the client, connect if the socket is not open
\* (connect_ok: whether that succeeds) and send the read
PEnter(t, connect_ok) ==
    /\ unit \in PUses /\ p_pc[t] = "in"
    /\ LET op == p_op[t]
           opened == p_open \/ connect_ok
       IN  IF op.kind = "close"
           THEN /\ p_open' = FALSE
                /\ p_ret' = [p_ret EXCEPT ![t] = RetNone]
                /\ p_pc' = [p_pc EXCEPT ![t] = "out"]
                /\ UNCHANGED <<p_wire, p_req, p_call>>
           ELSE IF op.kind = "is_connected"
           THEN /\ p_ret' = [p_ret EXCEPT ![t] = RetBool(p_open)]
                /\ p_pc' = [p_pc EXCEPT ![t] = "out"]
                /\ UNCHANGED <<p_open, p_wire, p_req, p_call>>
           ELSE IF op.kind = "connect"
           THEN /\ p_open' = connect_ok
                /\ p_ret' = [p_ret EXCEPT ![t] = RetBool(connect_ok)]
                /\ p_pc' = [p_pc EXCEPT ![t] = "out"]
                /\ p_call' = [p_call EXCEPT ![t].err = ~connect_ok]
                /\ UNCHANGED <<p_wire, p_req>>
           ELSE IF ~opened
           THEN /\ p_ret' = [p_ret EXCEPT ![t] =
                                IF ReturnsBool(op) THEN RetBool(FALSE)
                                ELSE IF op = BulkOp
                                THEN RetGrades(AllChannelsGradesData(NoResponse))
                                ELSE RetNone]
                /\ p_pc' = [p_pc EXCEPT ![t] = "out"]
                /\ p_call' = [p_call EXCEPT ![t].err = TRUE]
                /\ UNCHANGED <<p_open, p_wire, p_req>>
           ELSE IF IsWordWrite(op)
           THEN /\ p_open' = TRUE
                /\ p_req' = [p_req EXCEPT ![t] = op.bit]
                /\ p_wire' = p_wire \cup {t}
                /\ p_call' = [p_call EXCEPT ![t].wr = @ + 1]
                /\ p_pc' = [p_pc EXCEPT ![t] = "wr"]
                /\ UNCHANGED p_ret
           ELSE /\ p_open' = TRUE
                /\ p_wire' = p_wire \cup {t}
                /\ p_call' = [p_call EXCEPT ![t].rd = @ + 1]
                /\ p_pc' = [p_pc EXCEPT ![t] = "rd"]
                /\ UNCHANGED <<p_ret, p_req>>
    /\ UNCHANGED <<unit, wcvars, ctrvars, rvars, wvars, lfvars, qvars, tvars, dvars, svars, lkvars, p_lock, p_op, p_val,
                   p_regs>>

\* the answer to read_holding_registers(register_address, 1): an error, or
\* the register
PReadReply(t, ok) ==
    /\ unit \in PUses /\ p_pc[t] = "rd" /\ p_op[t] # BulkOp
    /\ p_wire' = p_wire \ {t}
    /\ LET op == p_op[t]
           register_value == p_regs[op.addr]
       IN  IF ~ok
           THEN /\ p_ret' = [p_ret EXCEPT ![t] =
                                IF ReturnsBool(op) THEN RetBool(FALSE) ELSE RetNone]
                /\ p_pc' = [p_pc EXCEPT ![t] = AfterError]
                /\ p_call' = [p_call EXCEPT ![t].err = TRUE]
                /\ UNCHANGED p_val
           ELSE /\ p_val' = [p_val EXCEPT ![t] = register_value]
                /\ p_ret' = [p_ret EXCEPT ![t] =
                                IF op.kind = "read_bit"
                                THEN RetBool(TestBit(register_value, op.bit))
                                ELSE IF op.kind = "get_system_status"
                                THEN RetStatus(SystemStatus(register_value))
                                ELSE @]
                /\ p_pc' = [p_pc EXCEPT ![t] = IF IsWrite(op) THEN "mod" ELSE "out"]
                /\ UNCHANGED p_call
    /\ UNCHANGED <<unit, wcvars, ctrvars, rvars, wvars, lfvars, qvars, tvars, dvars, svars, lkvars, p_lock, p_op, p_req,
                   p_open, p_regs>>

\* the answer to the read of get_all_channels_grades_data: an error, or
\* `length` registers from min_address on, decoded into the dict returned
PBulkReply(t, ok, length) ==
    /\ unit \in PUses /\ p_pc[t] = "rd" /\ p_op[t] = BulkOp
    /\ p_wire' = p_wire \ {t}
    /\ LET registers == [n \in 1..length |-> p_regs[MinAddress + n - 1]]
           response == IF ok THEN [ok |-> TRUE, registers |-> registers]
                       ELSE NoResponse
       IN  p_ret' = [p_ret EXCEPT ![t] = RetGrades(AllChannelsGradesData(response))]
    /\ p_call' = [p_call EXCEPT ![t].err = ~ok]
    /\ p_pc' = [p_pc EXCEPT ![t] = "out"]
    /\ UNCHANGED <<unit, wcvars, ctrvars, rvars, wvars, lfvars, qvars, tvars, dvars, svars, lkvars, p_lock, p_op, p_val,
                   p_req, p_open, p_regs>>

\* _write_register_bit lines 172-181: the bit is set or cleared in the value
\* read and write_register is sent
PWriteSend(t) ==
    /\ unit \in PUses /\ p_pc[t] = "mod"
    /\ p_req' = [p_req EXCEPT ![t] =
                    IF p_op[t].value THEN SetBit(p_val[t], p_op[t].bit)
                    ELSE ClearBit(p_val[t], p_op[t].bit)]
    /\ p_wire' = p_wire \cup {t}
    /\ p_call' = [p_call EXCEPT ![t].wr = @ + 1]
    /\ p_pc' = [p_pc EXCEPT ![t] = "wr"]
    /\ UNCHANGED <<unit, wcvars, ctrvars, rvars, wvars, lfvars, qvars, tvars, dvars, svars, lkvars, p_lock, p_op, p_val,
                   p_ret, p_open, p_regs>>

\* the answer to write_register: return not response.isError()
PWriteReply(t, ok) ==
    /\ unit \in PUses /\ p_pc[t] = "wr"
    /\ p_wire' = p_wire \ {t}
    /\ p_regs' = IF ok THEN [p_regs EXCEPT ![p_op[t].addr] = p_req[t]] ELSE p_regs
    /\ p_ret' = [p_ret EXCEPT ![t] = RetBool(ok)]
    /\ p_call' = [p_call EXCEPT ![t].err = ~ok]
    /\ p_pc' = [p_pc EXCEPT ![t] = "out"]
    /\ UNCHANGED <<unit, wcvars, ctrvars, rvars, wvars, lfvars, qvars, tvars, dvars, svars, lkvars, p_lock, p_op, p_val,
                   p_req, p_open>>

\* the end of the with block and the return (the locals are gone);
\* _pulse_register_bit then writes the bit a second time, cleared, if the
\* first write returned True
PRelease(t) ==
    /\ unit \in PUses /\ p_pc[t] = "out"
    /\ p_lock' = "free"
    /\ IF PulseContinues(p_op[t], p_ret[t])
       THEN /\ p_op' = [p_op EXCEPT ![t] = [@ EXCEPT !.value = FALSE, !.phase = 2]]
            /\ p_pc' = [p_pc EXCEPT ![t] = "lock"]
            /\ p_ret' = [p_ret EXCEPT ![t] = RetNone]
       ELSE /\ p_op' = [p_op EXCEPT ![t] = NoOp]
            /\ p_pc' = [p_pc EXCEPT ![t] = "idle"]
            /\ p_ret' = [p_ret EXCEPT ![t] = Returned(p_op[t], p_ret[t])]
    /\ p_val' = [p_val EXCEPT ![t] = 0]
    /\ p_req' = [p_req EXCEPT ![t] = 0]
    /\ p_call' = [p_call EXCEPT ![t] = NoRequest]
    /\ UNCHANGED <<unit, wcvars, ctrvars, rvars, wvars, lfvars, qvars, tvars, dvars, svars, lkvars, p_wire, p_open, p_regs>>

NextPlc ==
    \/ \E t \in PThreads, op \in POps \cup BitOps \cup GradeOps : PCall(t, op)
    \/ \E t \in PThreads : PAcquire(t)
    \/ \E t \in PThreads, connect_ok \in BOOLEAN : PEnter(t, connect_ok)
    \/ \E t \in PThreads, ok \in BOOLEAN : PReadReply(t, ok)
    \/ \E t \in PThreads, ok \in BOOLEAN, length \in BulkLengths :
          PBulkReply(t, ok, length)
    \/ \E t \in PThreads : PWriteSend(t)
    \/ \E t \in PThreads, ok \in BOOLEAN : PWriteReply(t, ok)
    \/ \E t \in PThreads : PRelease(t)

SpecPlc == InitPlc /\ [][NextPlc]_vars

-----------------------------------------------------------------------------
(* SortingTaskManager: the weight ranges and the first-match scan *)

WeightRange(min_weight, max_weight, grade) ==
    [min |-> min_weight, max |-> max_weight, grade |-> grade]

\* the ranges handed in: three that do not overlap and one across two of them
WeightRangeInputs ==
    {WeightRange(0, 100, 1), WeightRange(101, 200, 2), WeightRange(201, 300, 3),
     WeightRange(150, 250, 4)}

\* the lists configure_weight_sorting is called with: the ranges in any order
RangeLists ==
    LET lists == {<<>>} \cup {<<a>> : a \in WeightRangeInputs}
                   \cup {<<a, b>> : a \in WeightRangeInputs, b \in WeightRangeInputs}
                   \cup {<<a, b, c>> : a \in WeightRangeInputs, b \in WeightRangeInputs,
                                       c \in WeightRangeInputs}
    IN  {l \in lists : \A i \in 1..Len(l), j \in 1..Len(l) : i # j => l[i] # l[j]}

ScanWeights == {0, 100, 101, 150, 200, 250, 300, 301}

\* a range that takes every weight up to its max_weight
MatchesBelowMax(weight_range, weight) == weight <= weight_range.max

\* WeightRange.matches: self.min_weight <= weight <= self.max_weight
Matches(weight_range, weight) ==
    weight_range.min <= weight /\ weight <= weight_range.max

\* list.sort(key=lambda x: x.min_weight) of a sorted list with one range
\* appended: the sort is stable, the new range goes behind its equals
RECURSIVE InsertByMinWeight(_, _)
InsertByMinWeight(ranges, weight_range) ==
    IF ranges = <<>> THEN <<weight_range>>
    ELSE IF ranges[Len(ranges)].min <= weight_range.min
    THEN Append(ranges, weight_range)
    ELSE Append(InsertByMinWeight(SubSeq(ranges, 1, Len(ranges) - 1), weight_range),
                ranges[Len(ranges)])

RECURSIVE SortByMinWeight(_)
SortByMinWeight(ranges) ==
    IF ranges = <<>> THEN <<>>
    ELSE InsertByMinWeight(SortByMinWeight(SubSeq(ranges, 1, Len(ranges) - 1)),
                           ranges[Len(ranges)])

\* lines 342-351: for weight_range in self.weight_ranges ... break, else 0
ScanGrade(ranges, weight) ==
    LET hits == {i \in 1..Len(ranges) : Matches(ranges[i], weight)}
    IN  IF hits = {} THEN 0
        ELSE ranges[CHOOSE i \in hits : \A j \in hits : i <= j].grade

InitRanges ==
    /\ unit = "ranges"
    /\ QueueIdle /\ DataIdle /\ SorterIdle /\ t_last = TIdle
    /\ LockIdle /\ PlcIdle /\ LifeIdle /\ RangesIdle /\ ConfigIdle /\ CounterIdle /\ RaceIdle

\* SortingTaskManager.configure_weight_sorting(weight_ranges, enable)
ConfigureRanges(ranges, enable) ==
    /\ unit = "ranges"
    /\ weight_ranges' = ranges
    /\ enable_weight_sorting' = enable
    /\ UNCHANGED <<unit, wcvars, ctrvars, rvars, wvars, qvars, tvars, dvars, running, cntvars, taskvars,
                   enable_custom_sorting, loopvars, lkvars, pvars, lfvars>>

\* SortingTaskManager.add_weight_range(min_weight, max_weight, grade)
AddWeightRange(weight_range) ==
    /\ unit = "ranges" /\ Len(weight_ranges) < MaxRanges
    /\ weight_ranges' = SortByMinWeight(Append(weight_ranges, weight_range))
    /\ UNCHANGED <<unit, wcvars, ctrvars, rvars, wvars, qvars, tvars, dvars, running, cntvars, taskvars,
                   enable_weight_sorting, enable_custom_sorting, loopvars, lkvars,
                   pvars, lfvars>>

\* SortingTaskManager.clear_weight_ranges()
ClearWeightRanges ==
    /\ unit = "ranges"
    /\ weight_ranges' = <<>>
    /\ UNCHANGED <<unit, wcvars, ctrvars, rvars, wvars, qvars, tvars, dvars, running, cntvars, taskvars,
                   enable_weight_sorting, enable_custom_sorting, loopvars, lkvars,
                   pvars, lfvars>>

\* SortingTaskManager._process_weight_sorting on data with one waiting item
\* (grade 100) of the weight given, in a slot no override task is due for;
\* ok: whether set_channel_grade succeeds
ProcessWeightSorting(weight, ok) ==
    /\ unit = "ranges"
    /\ w_last' =
          IF ~enable_weight_sorting \/ weight_ranges = <<>>
          THEN [WIdle EXCEPT !.called = TRUE, !.weight = weight]
          ELSE LET grade == ScanGrade(weight_ranges, weight)
                   matched == \E i \in 1..Len(weight_ranges) :
                                 Matches(weight_ranges[i], weight)
               IN  [called |-> TRUE, weight |-> weight, written |-> TRUE,
                    grade |-> grade,
                    processed |-> IF matched /\ ok THEN 1 ELSE 0]
    /\ UNCHANGED <<unit, wcvars, ctrvars, rvars, qvars, tvars, dvars, svars, lkvars, pvars, lfvars>>

NextRanges ==
    \/ \E ranges \in RangeLists, enable \in BOOLEAN : ConfigureRanges(ranges, enable)
    \/ \E weight_range \in WeightRangeInputs : AddWeightRange(weight_range)
    \/ ClearWeightRanges
    \/ \E weight \in ScanWeights, ok \in BOOLEAN : ProcessWeightSorting(weight, ok)

SpecRanges == InitRanges /\ [][NextRanges]_vars


(* AlignedQueue: put() and get_aligned() from two threads *)

\* the alignment positions the orchestrator asks for
RacePositions == 1..MaxPuts

InitRace ==
    /\ LockIdle /\ PlcIdle /\ LifeIdle /\ RangesIdle /\ ConfigIdle /\ CounterIdle
    /\ unit = "race"
    /\ QueueIdle
    /\ SorterIdle
    /\ t_last = TIdle
    /\ DataIdle
    /\ RaceIdle

\* the sensor thread: put(data, position), one deque.append; the position is
\* the running number of the reading
RPut ==
    /\ unit = "race"
    /\ r_puts < MaxPuts
    /\ r_puts' = r_puts + 1
    /\ r_queue' = Put(r_queue, MaxLen, Entry(r_puts + 1, r_puts + 1))
    /\ UNCHANGED <<unit, wcvars, ctrvars, r_pc, r_t, r_head, r_ret, r_lost, r_calls,
                   qvars, tvars, dvars, svars, lkvars, pvars, lfvars, wvars>>

\* the orchestrator enters get_aligned(alignment_position): `if not
\* self._queue: return None`
RCall(alignment_position) ==
    /\ unit = "race"
    /\ r_pc = "idle"
    /\ r_calls < MaxCalls
    /\ r_calls' = r_calls + 1
    /\ r_t' = alignment_position
    /\ r_lost' = {}
    /\ IF r_queue = <<>>
       THEN /\ r_pc' = "idle"
            /\ r_ret' = [called |-> TRUE, t |-> alignment_position, result |-> NoItem]
       ELSE /\ r_pc' = "while"
            /\ UNCHANGED r_ret
    /\ UNCHANGED <<unit, wcvars, ctrvars, r_queue, r_head, r_puts,
                   qvars, tvars, dvars, svars, lkvars, pvars, lfvars, wvars>>

\* `while self._queue:`
RWhile ==
    /\ unit = "race"
    /\ r_pc = "while"
    /\ IF r_queue = <<>>
       THEN /\ r_pc' = "idle"
            /\ r_ret' = [called |-> TRUE, t |-> r_t, result |-> NoItem]
       ELSE /\ r_pc' = "peek"
            /\ UNCHANGED r_ret
    /\ UNCHANGED <<unit, wcvars, ctrvars, r_queue, r_t, r_head, r_lost, r_puts, r_calls,
                   qvars, tvars, dvars, svars, lkvars, pvars, lfvars, wvars>>

\* `data, current_position = self._queue[0]` and the comparison with
\* alignment_position, which only uses the values read
RPeek ==
    /\ unit = "race"
    /\ r_pc = "peek"
    /\ r_queue # <<>>
    /\ r_head' = Head(r_queue).position
    /\ IF IsAligned(r_t, r_head')
       THEN r_pc' = "pop_return" /\ UNCHANGED r_ret
       ELSE IF r_t < r_head'
       THEN /\ r_pc' = "idle"
            /\ r_ret' = [called |-> TRUE, t |-> r_t, result |-> NoItem]
       ELSE r_pc' = "pop_next" /\ UNCHANGED r_ret
    /\ UNCHANGED <<unit, wcvars, ctrvars, r_queue, r_t, r_lost, r_puts, r_calls,
                   qvars, tvars, dvars, svars, lkvars, pvars, lfvars, wvars>>

\* `return self._queue.popleft()`
RPopReturn ==
    /\ unit = "race"
    /\ r_pc = "pop_return"
    /\ r_queue # <<>>
    /\ r_queue' = Tail(r_queue)
    /\ r_ret' = [called |-> TRUE, t |-> r_t, result |-> Item(Head(r_queue))]
    /\ r_pc' = "idle"
    /\ UNCHANGED <<unit, wcvars, ctrvars, r_t, r_head, r_lost, r_puts, r_calls,
                   qvars, tvars, dvars, svars, lkvars, pvars, lfvars, wvars>>

\* `self._queue.popleft()` of rule 3, then back to the loop test
RPopNext ==
    /\ unit = "race"
    /\ r_pc = "pop_next"
    /\ r_queue # <<>>
    /\ r_queue' = Tail(r_queue)
    /\ r_lost' = r_lost \cup {Head(r_queue)}
    /\ r_pc' = "while"
    /\ UNCHANGED <<unit, wcvars, ctrvars, r_t, r_head, r_ret, r_puts, r_calls,
                   qvars, tvars, dvars, svars, lkvars, pvars, lfvars, wvars>>

NextRace ==
    \/ RPut
    \/ \E alignment_position \in RacePositions : RCall(alignment_position)
    \/ RWhile
    \/ RPeek
    \/ RPopReturn
    \/ RPopNext

SpecRace == InitRace /\ [][NextRace]_vars


(* Counter: get, set, tick, reset and the observers, from several threads *)

\* the callbacks that are registered: one that only logs (as
\* CachedSortingTaskManager._on_count_changed), one that raises, one that
\* calls get() on the Counter it observes
ObserverInputs == {"log", "raises", "reads"}

KOp(kind, value, callback) == [kind |-> kind, value |-> value, callback |-> callback]

\* the calls the threads make
KOps ==
    {KOp("get", 0, "none"), KOp("set", 5, "none"), KOp("tick", 1, "none"),
     KOp("reset", 0, "none")}
    \cup {KOp("add_observer", 0, cb) : cb \in ObserverInputs}
    \cup {KOp("remove_observer", 0, cb) : cb \in ObserverInputs}

Mutators == {"set", "tick", "reset"}

\* a lock that lets every thread in
CounterLockAlwaysFree(holder) == TRUE

\* threading.Lock.acquire(): the lock is taken only when nobody holds it,
\* the holder included
CounterLockFree(holder) == holder = 0

\* a notification loop that an exception of a callback leaves
AfterCallbackUncaught(callback, i, n) == IF callback = "raises" THEN n + 1 ELSE i + 1

\* _notify_observers: try/except around each callback, then the next one
AfterCallback(callback, i, n) == i + 1

\* list.remove(callback): the first occurrence goes
RECURSIVE RemoveFirst(_, _)
RemoveFirst(list, callback) ==
    IF list = <<>> THEN <<>>
    ELSE IF Head(list) = callback THEN Tail(list)
    ELSE <<Head(list)>> \o RemoveFirst(Tail(list), callback)

\* the argument set() is called with: reset() is set(0)
SetArgument(op) == IF op.kind = "reset" THEN 0 ELSE op.value

InitCounter ==
    /\ LockIdle /\ PlcIdle /\ LifeIdle /\ RangesIdle /\ ConfigIdle
    /\ RaceIdle
    /\ unit = "counter"
    /\ QueueIdle
    /\ SorterIdle
    /\ t_last = TIdle
    /\ DataIdle
    /\ CounterIdle

\* a thread calls a method of the Counter and reaches its `with self._lock`
KCall(t, op) ==
    /\ unit = "counter"
    /\ k_pc[t] = "idle"
    /\ k_calls < MaxCounterCalls
    /\ k_calls' = k_calls + 1
    /\ k_pc' = [k_pc EXCEPT ![t] = "acquire"]
    /\ k_op' = [k_op EXCEPT ![t] = op]
    /\ k_loc' = [k_loc EXCEPT ![t] = KNoLocals]
    /\ k_seen' = [k_seen EXCEPT ![t] = <<>>]
    /\ k_ret' = [k_ret EXCEPT ![t] = -1]
    /\ UNCHANGED <<unit, wcvars, rvars, k_value, k_lock, k_observers, k_expect,
                   qvars, tvars, dvars, svars, lkvars, pvars, lfvars, wvars>>

\* `with self._lock` is entered: by a call, or by the get() a callback makes
\* while its thread is inside set() or tick() (that get() then reads, leaves
\* its own `with` and the notification goes on)
KAcquire(t) ==
    /\ unit = "counter"
    /\ k_pc[t] \in {"acquire", "reenter"}
    /\ CounterLockFree(k_lock)
    /\ IF k_pc[t] = "acquire"
       THEN /\ k_lock' = t
            /\ k_pc' = [k_pc EXCEPT ![t] = "body"]
            /\ UNCHANGED k_loc
       ELSE /\ k_lock' = 0
            /\ k_pc' = [k_pc EXCEPT ![t] = "notify"]
            /\ k_loc' = [k_loc EXCEPT ![t].i =
                            AfterCallback("reads", @, Len(k_observers))]
    /\ UNCHANGED <<unit, wcvars, rvars, k_value, k_observers, k_op, k_seen, k_ret, k_expect,
                   k_calls, qvars, tvars, dvars, svars, lkvars, pvars, lfvars, wvars>>

\* the first statement inside the lock: get() reads _value, set() and tick()
\* read old_value, add_observer and remove_observer change the list
KBody(t) ==
    /\ unit = "counter"
    /\ k_pc[t] = "body"
    /\ LET op == k_op[t]
       IN  IF op.kind = "get"
           THEN /\ k_ret' = [k_ret EXCEPT ![t] = k_value]
                /\ k_pc' = [k_pc EXCEPT ![t] = "release"]
                /\ UNCHANGED <<k_loc, k_observers>>
           ELSE IF op.kind \in Mutators
           THEN /\ k_loc' = [k_loc EXCEPT ![t].old_value = k_value]
                /\ k_pc' = [k_pc EXCEPT ![t] = "write"]
                /\ UNCHANGED <<k_ret, k_observers>>
           ELSE /\ k_observers' =
                     IF op.kind = "add_observer"
                     THEN (IF op.callback \in SeqRange(k_observers) THEN k_observers
                           ELSE Append(k_observers, op.callback))
                     ELSE RemoveFirst(k_observers, op.callback)
                /\ k_pc' = [k_pc EXCEPT ![t] = "release"]
                /\ UNCHANGED <<k_loc, k_ret>>
    /\ UNCHANGED <<unit, wcvars, rvars, k_value, k_lock, k_op, k_seen, k_expect, k_calls,
                   qvars, tvars, dvars, svars, lkvars, pvars, lfvars, wvars>>

\* `self._value = value` of set(), `self._value += increment` of tick()
KWrite(t) ==
    /\ unit = "counter"
    /\ k_pc[t] = "write"
    /\ LET op == k_op[t]
           written == IF op.kind = "tick" THEN k_loc[t].old_value + op.value
                      ELSE SetArgument(op)
       IN  /\ k_value' = written
           /\ k_expect' = IF op.kind = "tick" THEN k_expect + op.value
                          ELSE SetArgument(op)
           /\ k_loc' = [k_loc EXCEPT ![t].new_value = written,
                                     ![t].replaced = k_value,
                                     ![t].i = 1]
    /\ k_pc' = [k_pc EXCEPT ![t] = "notify"]
    /\ UNCHANGED <<unit, wcvars, rvars, k_lock, k_observers, k_op, k_seen, k_ret, k_calls,
                   qvars, tvars, dvars, svars, lkvars, pvars, lfvars, wvars>>

\* _notify_observers(old_value, new_value): one turn of its for loop, or,
\* after the last callback, the return statement of set() or tick()
KNotify(t) ==
    /\ unit = "counter"
    /\ k_pc[t] = "notify"
    /\ LET i == k_loc[t].i
       IN  IF i > Len(k_observers)
           THEN /\ k_ret' = [k_ret EXCEPT ![t] = IF k_op[t].kind = "tick" THEN k_value
                                                 ELSE k_loc[t].old_value]
                /\ k_pc' = [k_pc EXCEPT ![t] = "release"]
                /\ UNCHANGED <<k_seen, k_loc>>
           ELSE /\ k_seen' = [k_seen EXCEPT ![t] =
                                Append(@, [callback |-> k_observers[i],
                                           old_value |-> k_loc[t].old_value,
                                           new_value |-> k_loc[t].new_value])]
                /\ IF k_observers[i] = "reads"
                   THEN /\ k_pc' = [k_pc EXCEPT ![t] = "reenter"]
                        /\ UNCHANGED k_loc
                   ELSE /\ k_loc' = [k_loc EXCEPT ![t].i =
                                       AfterCallback(k_observers[i], i, Len(k_observers))]
                        /\ UNCHANGED k_pc
                /\ UNCHANGED k_ret
    /\ UNCHANGED <<unit, wcvars, rvars, k_value, k_lock, k_observers, k_op, k_expect, k_calls,
                   qvars, tvars, dvars, svars, lkvars, pvars, lfvars, wvars>>

\* the `with` block is left and the call returns
KRelease(t) ==
    /\ unit = "counter"
    /\ k_pc[t] = "release"
    /\ k_lock' = 0
    /\ k_pc' = [k_pc EXCEPT ![t] = "idle"]
    /\ UNCHANGED <<unit, wcvars, rvars, k_value, k_observers, k_op, k_loc, k_seen, k_ret,
                   k_expect, k_calls,
                   qvars, tvars, dvars, svars, lkvars, pvars, lfvars, wvars>>

KStep(t) ==
    KAcquire(t) \/ KBody(t) \/ KWrite(t) \/ KNotify(t) \/ KRelease(t)

NextCounter ==
    \/ \E t \in KThreads, op \in KOps : KCall(t, op)
    \/ \E t \in KThreads : KAcquire(t)
    \/ \E t \in KThreads : KBody(t)
    \/ \E t \in KThreads : KWrite(t)
    \/ \E t \in KThreads : KNotify(t)
    \/ \E t \in KThreads : KRelease(t)

SpecCounter == InitCounter /\ [][NextCounter]_vars

\* every thread that can take a step of its call takes one
SpecCounterFair ==
    SpecCounter /\ \A t \in KThreads : WF_vars(KStep(t))


(* The weight services: validate, update_config and reload_config *)

MaxGradeConfigs == 10

\* WeightConfigSet.validate(): the bool of its result
Validate(configs) ==
    /\ Len(configs) # 0
    /\ Len(configs) <= MaxGradeConfigs
    /\ \A i \in 2..Len(configs) :
          configs[i].weight_threshold > configs[i - 1].weight_threshold
    /\ \A i \in 1..Len(configs), j \in 1..Len(configs) :
          (i # j /\ configs[i].enabled /\ configs[j].enabled)
             => configs[i].kick_channel # configs[j].kick_channel

\* the lists of grades that are submitted or found in the table: two valid
\* ones (the second given in descending order, with a disabled grade that
\* shares a kick channel), an empty one, eleven grades, equal thresholds,
\* and a kick channel used by two enabled grades
ElevenConfigs ==
    [i \in 1..(MaxGradeConfigs + 1) |->
        WeightGradeConfig(((i - 1) % MaxGradeConfigs) + 1, 10 * i, i, TRUE)]

ConfigInputs ==
    {DefaultConfigs,
     <<WeightGradeConfig(2, 200, 2, TRUE), WeightGradeConfig(1, 100, 1, TRUE),
       WeightGradeConfig(3, 300, 1, FALSE)>>,
     <<>>,
     ElevenConfigs,
     <<WeightGradeConfig(1, 100, 1, TRUE), WeightGradeConfig(2, 100, 2, TRUE)>>,
     <<WeightGradeConfig(1, 100, 1, TRUE), WeightGradeConfig(2, 200, 1, TRUE)>>}

\* what load_config can find in the table: no rows give None
StoredInputs ==
    {NoConfigSet} \cup {WeightConfigSet(c, 1) : c \in ConfigInputs \ {<<>>}}

\* reload_config of WeightDetectionService assigns what it loaded to
\* self.current_config before it validates; the asynchronous service keeps
\* it in a local until it is validated
AssignsOnLoad(service) == service = "WeightDetectionService"

InitConfig ==
    /\ LockIdle /\ PlcIdle /\ LifeIdle /\ RangesIdle
    /\ RaceIdle /\ CounterIdle
    /\ unit = "config"
    /\ QueueIdle
    /\ SorterIdle
    /\ t_last = TIdle
    /\ DataIdle
    /\ ConfigIdle

\* update_config(config_set) on a service whose current_config is current:
\* the outcome, the service's current_config and the table afterwards
UpdateOutcome(current, store, config_set, save_ok) ==
    LET versioned == IF ~current.none
                     THEN [config_set EXCEPT !.version = current.version + 1]
                     ELSE config_set
    IN  IF ~Validate(config_set.configs)
        THEN [ok |-> FALSE, current |-> current, store |-> store]
        ELSE IF save_ok
        THEN [ok |-> TRUE, current |-> versioned, store |-> versioned]
        ELSE [ok |-> FALSE, current |-> current, store |-> store]

\* service.update_config(WeightConfigSet(configs)); save_ok is whether
\* data_store.save_config succeeds
UpdateConfig(service, configs, save_ok) ==
    /\ unit = "config"
    /\ g_calls < MaxConfigCalls
    /\ g_calls' = g_calls + 1
    /\ LET r == UpdateOutcome(g_cur[service], g_store, WeightConfigSet(configs, 1), save_ok)
       IN  /\ g_cur' = [g_cur EXCEPT ![service] = r.current]
           /\ g_store' = r.store
           /\ g_last' = [service |-> service, op |-> "update_config", ok |-> r.ok]
    /\ UNCHANGED <<unit, rvars, ctrvars, qvars, tvars, dvars, svars, lkvars, pvars,
                   lfvars, wvars>>

\* service.reload_config(); load_ok is whether data_store.load_config reads
\* the table (it returns None when it cannot), save_ok whether a default
\* configuration can be saved
ReloadConfig(service, load_ok, save_ok) ==
    /\ unit = "config"
    /\ g_calls < MaxConfigCalls
    /\ g_calls' = g_calls + 1
    /\ LET config == IF load_ok THEN g_store ELSE NoConfigSet
           assigned == IF AssignsOnLoad(service) THEN config ELSE g_cur[service]
       IN  IF ~config.none
           THEN IF Validate(config.configs)
                THEN /\ g_cur' = [g_cur EXCEPT ![service] = config]
                     /\ g_last' = [service |-> service, op |-> "reload_config",
                                   ok |-> TRUE]
                     /\ UNCHANGED g_store
                ELSE /\ g_cur' = [g_cur EXCEPT ![service] = assigned]
                     /\ g_last' = [service |-> service, op |-> "reload_config",
                                   ok |-> FALSE]
                     /\ UNCHANGED g_store
           ELSE LET r == UpdateOutcome(assigned, g_store,
                                       WeightConfigSet(DefaultConfigs, 1), save_ok)
                IN  /\ g_cur' = [g_cur EXCEPT ![service] = r.current]
                    /\ g_store' = r.store
                    /\ g_last' = [service |-> service, op |-> "reload_config",
                                  ok |-> r.ok]
    /\ UNCHANGED <<unit, rvars, ctrvars, qvars, tvars, dvars, svars, lkvars, pvars,
                   lfvars, wvars>>

\* the weight_configs table is changed from outside the two services
StoreEdited(stored) ==
    /\ unit = "config"
    /\ g_calls < MaxConfigCalls
    /\ g_calls' = g_calls + 1
    /\ g_store' = stored
    /\ g_last' = NoConfigCall
    /\ UNCHANGED <<unit, rvars, ctrvars, g_cur, qvars, tvars, dvars, svars, lkvars,
                   pvars, lfvars, wvars>>

NextConfig ==
    \/ \E service \in Services, configs \in ConfigInputs, save_ok \in BOOLEAN :
          UpdateConfig(service, configs, save_ok)
    \/ \E service \in Services, load_ok \in BOOLEAN, save_ok \in BOOLEAN :
          ReloadConfig(service, load_ok, save_ok)
    \/ \E stored \in StoredInputs : StoreEdited(stored)

SpecConfig == InitConfig /\ [][NextConfig]_vars

-----------------------------------------------------------------------------
(* CachedSortingTaskManager: start(), stop() and the monitor-loop threads *)

\* how the try block of one iteration ends: all done, the bulk read failed,
\* the batch write failed, or an exception was raised inside it
CycleOutcomes == {"done", "read_failed", "write_failed", "raised"}

\* a `while` that never looks at self.running
LoopContinuesAlways(is_running) == TRUE

\* line 328: while self.running
LoopContinues(is_running) == is_running

\* a loop without the except clause: the exception ends the thread
AfterCycleUncaught(outcome) == IF outcome = "raised" THEN "dead" ELSE "sleep"

\* lines 329-392: whatever happened in the try block, and after
\* `except Exception`, the thread goes on to time.sleep
AfterCycle(outcome) == "sleep"

\* is_alive() of a thread
Alive(t) == l_pc[t] \notin {"unborn", "dead"}

InitLife ==
    /\ unit = "life"
    /\ QueueIdle /\ DataIdle /\ SorterIdle /\ t_last = TIdle
    /\ LockIdle /\ PlcIdle /\ LifeIdle /\ RangesIdle /\ ConfigIdle /\ CounterIdle /\ RaceIdle

\* start(), lines 505-514
start ==
    /\ unit = "life" /\ s_pc = "idle"
    /\ \E t \in LThreads : l_pc[t] = "unborn"
    /\ IF running
       THEN /\ s_last' = "start_refused"
            /\ UNCHANGED <<running, thread, l_pc>>
       ELSE LET t == CHOOSE u \in LThreads :
                        l_pc[u] = "unborn" /\ \A v \in LThreads : l_pc[v] = "unborn" => u <= v
            IN  /\ running' = TRUE
                /\ thread' = t
                /\ l_pc' = [l_pc EXCEPT ![t] = "while"]
                /\ s_last' = "started"
    /\ UNCHANGED <<unit, wcvars, ctrvars, rvars, wvars, qvars, tvars, dvars, cntvars, taskvars, cfgvars, loopvars,
                   lkvars, pvars, l_out, s_pc>>

\* stop(), lines 516-525, up to the join
stop ==
    /\ unit = "life" /\ s_pc = "idle"
    /\ IF ~running
       THEN /\ s_last' = "stop_refused"
            /\ UNCHANGED <<running, s_pc>>
       ELSE /\ running' = FALSE
            /\ s_last' = "stopped"
            /\ s_pc' = IF thread # 0 /\ Alive(thread) THEN "join" ELSE "idle"
    /\ UNCHANGED <<unit, wcvars, ctrvars, rvars, wvars, qvars, tvars, dvars, cntvars, taskvars, cfgvars, loopvars,
                   lkvars, pvars, thread, l_pc, l_out>>

\* self.thread.join(timeout=1.0) returns because the thread has ended
JoinReturns ==
    /\ unit = "life" /\ s_pc = "join" /\ ~Alive(thread)
    /\ s_pc' = "idle"
    /\ UNCHANGED <<unit, wcvars, ctrvars, rvars, wvars, qvars, tvars, dvars, svars, lkvars, pvars, thread, l_pc,
                   l_out, s_last>>

\* self.thread.join(timeout=1.0) returns because the second has passed
JoinExpires ==
    /\ unit = "life" /\ s_pc = "join" /\ Alive(thread)
    /\ s_pc' = "idle"
    /\ UNCHANGED <<unit, wcvars, ctrvars, rvars, wvars, qvars, tvars, dvars, svars, lkvars, pvars, thread, l_pc,
                   l_out, s_last>>

\* _monitor_loop_cached line 328: the test of `while self.running`; the
\* thread enters the try block (and sends the bulk read) or leaves the loop
LoopTest(t) ==
    /\ unit = "life" /\ l_pc[t] = "while"
    /\ l_pc' = [l_pc EXCEPT ![t] = IF LoopContinues(running) THEN "cycle" ELSE "dead"]
    /\ UNCHANGED <<unit, wcvars, ctrvars, rvars, wvars, qvars, tvars, dvars, svars, lkvars, pvars, thread, l_out,
                   s_pc, s_last>>

\* lines 329-390: the try block ends
CycleEnd(t, outcome) ==
    /\ unit = "life" /\ l_pc[t] = "cycle"
    /\ l_out' = [l_out EXCEPT ![t] = outcome]
    /\ l_pc' = [l_pc EXCEPT ![t] = AfterCycle(outcome)]
    /\ UNCHANGED <<unit, wcvars, ctrvars, rvars, wvars, qvars, tvars, dvars, svars, lkvars, pvars, thread, s_pc,
                   s_last>>

\* line 392: time.sleep(self.monitor_interval) is over
SleepEnd(t) ==
    /\ unit = "life" /\ l_pc[t] = "sleep"
    /\ l_pc' = [l_pc EXCEPT ![t] = "while"]
    /\ UNCHANGED <<unit, wcvars, ctrvars, rvars, wvars, qvars, tvars, dvars, svars, lkvars, pvars, thread, l_out,
                   s_pc, s_last>>

NextLife ==
    \/ start
    \/ stop
    \/ JoinReturns
    \/ JoinExpires
    \/ \E t \in LThreads : LoopTest(t)
    \/ \E t \in LThreads, outcome \in CycleOutcomes : CycleEnd(t, outcome)
    \/ \E t \in LThreads : SleepEnd(t)

SpecLife == InitLife /\ [][NextLife]_vars

\* the threads are scheduled, the try block ends (the requests of the
\* communicator are bounded by the socket's timeout), the sleep ends and
\* the join ends at its timeout at the latest
SpecLifeFair ==
    /\ SpecLife
    /\ \A t \in LThreads : WF_vars(LoopTest(t))
    /\ \A t \in LThreads : WF_vars(\E outcome \in CycleOutcomes : CycleEnd(t, outcome))
    /\ \A t \in LThreads : WF_vars(SleepEnd(t))
    /\ WF_vars(JoinReturns) /\ WF_vars(JoinExpires)

-----------------------------------------------------------------------------
(* AlignedQueue.get_aligned: claims *)

QGot == q_last.op = "get"

\* C3: get_aligned(t) on a non-empty queue whose head has a position greater
\* than t returns None and leaves the queue as it was.
C3_AheadLeavesQueue ==
    (QGot /\ q_last.pre # <<>> /\ Head(q_last.pre).position > q_last.arg)
        => (q_last.result = NoItem /\ my_queue = q_last.pre)

C3_Witness ==
    /\ QGot /\ Len(q_last.pre) >= 2
    /\ Head(q_last.pre).position > q_last.arg
    /\ \E i \in 2..Len(q_last.pre) : q_last.pre[i].position = q_last.arg

\* the first index of pre whose entry has position t and is preceded only by
\* entries of a smaller position; the empty set when there is none
Reachable(pre, t) ==
    {i \in 1..Len(pre) : /\ pre[i].position = t
                         /\ \A j \in 1..(i - 1) : pre[j].position < t}

\* C4: a result other than None is a queued entry of the requested position;
\* an entry of position t preceded only by smaller positions is returned and
\* removed with everything before it, the later entries keep their order; an
\* empty queue gives None.
C4_GetAlignedResult ==
    QGot =>
        /\ q_last.result # NoItem =>
              /\ q_last.result[1] \in SeqRange(q_last.pre)
              /\ q_last.result[1].position = q_last.arg
        /\ \A i \in Reachable(q_last.pre, q_last.arg) :
              /\ q_last.result = Item(q_last.pre[i])
              /\ my_queue = SubSeq(q_last.pre, i + 1, Len(q_last.pre))
        /\ q_last.pre = <<>> => q_last.result = NoItem

C4_Witness ==
    /\ QGot
    /\ \E i \in Reachable(q_last.pre, q_last.arg) : i >= 2 /\ i < Len(q_last.pre)

\* C5: an entry popped as stale is never returned by a later call; and when
\* the puts came in non-decreasing position order, a call for a position below
\* one already returned or popped returns None.
C5_LossOnSkip ==
    QGot =>
        /\ q_last.result # NoItem => q_last.result[1].data \notin q_gone
        /\ (q_mono /\ q_last.arg < q_last.floor) => q_last.result = NoItem

C5_Witness ==
    /\ QGot /\ q_mono /\ q_gone # {}
    /\ q_last.arg < q_last.floor
    /\ q_last.pre # <<>>

-----------------------------------------------------------------------------
(* AlignedQueue capacity and DataManager alignment: claims *)

QueueOk(queue, offset) ==
    queue.exists => (queue.maxlen = offset + 10 /\ Len(queue.items) <= queue.maxlen)

\* C6: the size of a queue never exceeds its max_length; a put on a full
\* queue drops exactly the oldest entry and appends the new one behind the
\* others; every queue the DataManager creates for a stream has capacity
\* (offset of that stream + 10).
C6_BoundedFifo ==
    /\ Len(my_queue) <= q_max
    /\ q_last.op = "put" =>
          my_queue = (IF Len(q_last.pre) = q_max
                      THEN SubSeq(q_last.pre, 2, Len(q_last.pre))
                      ELSE q_last.pre) \o <<Entry(q_serial, q_last.arg)>>
    /\ \A l \in Lines : /\ QueueOk(weight_queue[l], weight_offset)
                        /\ QueueOk(water_queue[l], water_offset)

C6_Witness ==
    /\ q_last.op = "put" /\ q_max >= 2 /\ Len(q_last.pre) = q_max
    /\ Len(my_queue) = q_max

DWeighed ==
    /\ d_last.called /\ d_last.name = "weight"
    /\ water_offset > 0 /\ weight_offset = 0
    /\ cur_template_id \in TemplateIds

\* C7 as claimed: with water offset k > 0 and weight offset 0, a weight at
\* position P is evaluated together with a water value enqueued for its line
\* at position P - k whenever such an entry is queued.
C7_AsClaimed ==
    (/\ DWeighed
     /\ \E i \in 1..Len(d_last.pre_water) :
            d_last.pre_water[i].position = d_last.position - water_offset)
    => /\ d_last.evaluated
       /\ d_last.weight_arg = d_last.value
       /\ \E i \in 1..Len(d_last.pre_water) :
            /\ d_last.pre_water[i].position = d_last.position - water_offset
            /\ d_last.water_arg = PyInt(d_last.pre_water[i].data)

\* C7: with water offset k > 0, weight offset 0 and the current template
\* present, a weight at position P is evaluated together with the integer part
\* of the first water value queued for its own line at position P - k, when
\* every entry queued before that one has a smaller position.
C7_PairsAlignedWater ==
    DWeighed =>
        \A i \in Reachable(d_last.pre_water, d_last.position - water_offset) :
            /\ d_last.evaluated
            /\ ~d_last.miss
            /\ d_last.weight_arg = d_last.value
            /\ d_last.water_arg = PyInt(d_last.pre_water[i].data)

C7_Witness ==
    /\ DWeighed /\ d_last.evaluated /\ d_last.line = "A"
    /\ Reachable(d_last.pre_water, d_last.position - water_offset) # {}
    /\ water_queue["B"].items # <<>>
    /\ d_last.water_arg = 40

-----------------------------------------------------------------------------
(* CachedSortingTaskManager: claims *)

\* the step is an iteration of the monitor loop (every iteration counts a
\* cache hit: the dict that was read is never empty); c_read' is what it read
IsCycle == stats'.cache_hits = stats.cache_hits + 1

ReadOk(data) == \A c \in Lines : data.channels[c].ok

Slot1Pending(data, ch) ==
    /\ ch \in Lines /\ data.channels[ch].ok
    /\ \E i \in 1..Len(data.channels[ch].items) :
          /\ data.channels[ch].items[i].sequence = 1
          /\ data.channels[ch].items[i].grade = 100

\* the task waits, the counter is at its target and slot 1 of its channel is
\* pending in what the controller reports
Matching(id, data) ==
    /\ ~tasks[id].executed
    /\ counter = tasks[id].target_count
    /\ Slot1Pending(data, tasks[id].target_channel)

\* for each channel the first matching task of custom_tasks
FirstMatching(data) ==
    {custom_tasks[k] : k \in {n \in 1..Len(custom_tasks) :
        /\ Matching(custom_tasks[n], data)
        /\ \A j \in 1..(n - 1) :
              ~(/\ Matching(custom_tasks[j], data)
                /\ tasks[custom_tasks[j]].target_channel
                      = tasks[custom_tasks[n]].target_channel)}}

Grade1(data, ch) == data.channels[ch].items[1].grade

Succeeded(id) ==
    /\ Grade1(cached_channels_data', tasks[id].target_channel) = tasks[id].sort_channel
    /\ tasks'[id].executed /\ tasks'[id].success = "True"
    /\ id \notin SeqRange(custom_tasks')
    /\ stats'.custom_sorted_count > stats.custom_sorted_count

\* C1 as claimed: in a cycle with override sorting enabled and a successful
\* read, the first waiting task of a channel whose target_count is the counter
\* and whose slot 1 is pending has its lane written to the slot, is marked
\* executed with success and leaves custom_tasks; custom_sorted_count grows.
C1_AsClaimed ==
    [][(IsCycle /\ enable_custom_sorting /\ ReadOk(c_read'))
          => \A id \in FirstMatching(c_read') : Succeeded(id)]_vars

\* C1: the same, for a task whose sort_channel is not 100, the value that
\* marks a slot as pending; custom_sorted_count then grows by one per such task.
C1_OverrideApplied ==
    [][(IsCycle /\ enable_custom_sorting /\ ReadOk(c_read'))
          => /\ \A id \in FirstMatching(c_read') :
                    tasks[id].sort_channel # 100 => Succeeded(id)
             /\ (\A id \in FirstMatching(c_read') : tasks[id].sort_channel # 100)
                => stats'.custom_sorted_count
                      = stats.custom_sorted_count + Cardinality(FirstMatching(c_read'))]_vars

C1_Witness ==
    \E id \in 1..Len(tasks) :
        /\ tasks[id].success = "True" /\ tasks[id].sort_channel = 7
        /\ cached_channels_data.loaded
        /\ Grade1(cached_channels_data, "A") = 7
        /\ stats.custom_sorted_count = 1
        /\ counter = tasks[id].target_count
        /\ Len(custom_tasks) = 1
        /\ tasks[custom_tasks[1]].target_count = tasks[id].target_count
        /\ tasks[custom_tasks[1]].target_channel = "A"

\* the waiting tasks the counter has gone past
Late == {id \in SeqRange(custom_tasks) :
            ~tasks[id].executed /\ counter > tasks[id].target_count}

Missed(id) ==
    /\ tasks'[id].executed /\ tasks'[id].success = "False"
    /\ id \notin SeqRange(custom_tasks')
    /\ id \notin applied'

NoAlignedWater(line_id, p) ==
    \/ ~water_queue[line_id].exists
    \/ Reachable(water_queue[line_id].items, p - water_offset) = {}

\* C10: in a cycle that grades by measurement, an item for which no aligned
\* water reading can be retrieved ends the cycle with grade 0, and the cycle
\* runs to its end (nothing is raised).
C10_MissGivesReject ==
    [][(/\ IsCycle
        /\ enable_weight_sorting /\ weight_ranges # <<>> /\ ~enable_custom_sorting
        /\ ReadOk(c_read'))
          => /\ loop_count' = loop_count + 1
             /\ \A c \in Lines, i \in 1..SlotsPerChannel :
                  (c_read'.channels[c].items[i].grade = 100 /\ NoAlignedWater(c, _count))
                  => cached_channels_data'.channels[c].items[i].grade = 0]_vars

\* the slots whose grade the cycle changed in the snapshot it read
Changed ==
    {s \in Lines \X (1..SlotsPerChannel) :
        /\ c_read'.channels[s[1]].ok
        /\ cached_channels_data'.channels[s[1]].items[s[2]].grade
              # c_read'.channels[s[1]].items[s[2]].grade}

\* the write-backs a step made
Writes ==
    (stats'.batch_writes + stats'.batch_write_failures)
       - (stats.batch_writes + stats.batch_write_failures)

\* C11: a cycle calls the write-back at most once, and it calls it exactly
\* when the cycle changed the grade of at least one slot, by an override or
\* by the measurement-based grading; no other step writes.
C11_WriteIffChanged ==
    [][/\ Writes \in {0, 1}
       /\ IsCycle => ((Writes = 1) <=> (Changed # {}))
       /\ IsCycle => ((c_write' # "none") <=> (Writes = 1))
       /\ ~IsCycle => Writes = 0]_vars

\* C12: a cycle whose bulk read fails is skipped as a whole: no grade is
\* decided, no reading is taken from the alignment queues, nothing is written
\* back, and no override task changes state (none is marked executed, and
\* custom_tasks and the two task statistics stay as they were).
C12_FailedReadSkipsCycle ==
    [][(IsCycle /\ ~ReadOk(c_read'))
          => /\ Changed = {}
             /\ cached_channels_data' = c_read'
             /\ weight_queue' = weight_queue /\ water_queue' = water_queue
             /\ Writes = 0 /\ c_write' = "none"
             /\ tasks' = tasks /\ custom_tasks' = custom_tasks
             /\ stats'.custom_sorted_count = stats.custom_sorted_count
             /\ stats'.missed_tasks = stats.missed_tasks]_vars

\* the tasks a step marked executed with success
NewlySucceeded ==
    {id \in 1..Len(tasks) : ~tasks[id].executed /\ tasks'[id].success = "True"}

\* C13: a cycle whose write-back fails counts one batch_write_failures and no
\* batch_writes and writes once only; what the cycle decided is not taken
\* back (a task it marked succeeded is executed and gone from custom_tasks,
\* the cached snapshot keeps the decided grades); and every cycle decides on
\* the snapshot it has just read alone: a slot that snapshot does not report
\* as pending keeps the grade that was read, whatever earlier cycles decided.
C13_FailedWriteNotRetried ==
    [][/\ (IsCycle /\ c_write' = "failed")
             => /\ stats'.batch_write_failures = stats.batch_write_failures + 1
                /\ stats'.batch_writes = stats.batch_writes
                /\ \A id \in NewlySucceeded :
                      /\ tasks'[id].executed
                      /\ id \notin SeqRange(custom_tasks')
                      /\ id \in applied'
                      /\ tasks[id].sort_channel # PENDING
                         => <<tasks[id].target_channel, 1>> \in Changed
                /\ stats'.custom_sorted_count
                      = stats.custom_sorted_count + Cardinality(NewlySucceeded)
       /\ IsCycle
             => /\ \E regs \in ReadInputs : c_read' = GetAllChannelsGradesData(regs)
                /\ \A c \in Lines, i \in 1..SlotsPerChannel :
                      (c_read'.channels[c].ok
                         /\ c_read'.channels[c].items[i].grade # PENDING)
                      => cached_channels_data'.channels[c].items[i]
                            = c_read'.channels[c].items[i]]_vars

\* a write-back failed after an override was decided, and a later cycle ran
\* on a snapshot that reports the slot with the lane the controller holds
C13_Witness ==
    /\ stats.batch_write_failures = 1 /\ stats.batch_writes = 0
    /\ stats.cache_hits = 2 /\ c_write = "none"
    /\ \E id \in applied : tasks[id].sort_channel = 7 /\ tasks[id].success = "True"
    /\ custom_tasks = <<>>
    /\ cached_channels_data.channels["A"].ok
    /\ Grade1(cached_channels_data, "A") = 3

\* C14 as claimed: in a cycle with both kinds of sorting enabled, a slot that
\* an override task was applied to is not graded by measurement afterwards:
\* it carries the task's sort_channel at the end of the cycle, whatever that
\* sort_channel is, and so when the write-back is issued.
C14_AsClaimed ==
    [][(IsCycle /\ enable_custom_sorting /\ enable_weight_sorting)
          => \A id \in NewlySucceeded :
                Grade1(cached_channels_data', tasks[id].target_channel)
                   = tasks[id].sort_channel]_vars

\* C14: the same for every sort_channel other than 100, the value that marks
\* a slot as pending; if the cycle runs to its end the write-back is issued
\* with the slot carrying that sort_channel.
C14_OverrideBeforeWeight ==
    [][(IsCycle /\ enable_custom_sorting /\ enable_weight_sorting)
          => \A id \in NewlySucceeded :
                tasks[id].sort_channel # PENDING
                => /\ Grade1(cached_channels_data', tasks[id].target_channel)
                         = tasks[id].sort_channel
                   /\ loop_count' = loop_count + 1 => c_write' # "none"]_vars

\* an override lane and a measured lane decided in the same cycle
C14_Witness ==
    /\ enable_custom_sorting /\ enable_weight_sorting /\ weight_ranges # <<>>
    /\ \E id \in applied : tasks[id].sort_channel = 7 /\ tasks[id].target_channel = "A"
    /\ cached_channels_data.channels["A"].ok
    /\ Grade1(cached_channels_data, "A") = 7
    /\ Grade1(cached_channels_data, "B") \notin {3, PENDING}
    /\ c_write = "ok"

\* C15: an override task acts on the sequence-1 slot of its own target
\* channel only: every slot whose grade a cycle changes by overrides alone is
\* the sequence-1 slot of the target channel of a task the cycle marked
\* succeeded and takes the lane of such a task, so no slot with another
\* sequence and no slot of another channel receives a grade from a task.
C15_OverrideOnlyFirstSlot ==
    [][(IsCycle /\ enable_custom_sorting /\ ~enable_weight_sorting)
          => \A s \in Changed :
                /\ c_read'.channels[s[1]].items[s[2]].sequence = 1
                /\ \E id \in NewlySucceeded :
                      /\ tasks[id].target_channel = s[1]
                      /\ tasks[id].sort_channel
                            = cached_channels_data'.channels[s[1]].items[s[2]].grade
                /\ \A t \in Lines \X (1..SlotsPerChannel) :
                      (t[1] = s[1] /\ t[2] # s[2]) => t \notin Changed]_vars

\* a task was applied to slot 1 of channel A while slot 2 of A was pending
\* as well and slot 1 of B was not the task's
C15_Witness ==
    /\ enable_custom_sorting /\ ~enable_weight_sorting
    /\ \E id \in applied : tasks[id].sort_channel = 7 /\ tasks[id].target_channel = "A"
    /\ cached_channels_data.channels["A"].ok
    /\ Grade1(cached_channels_data, "A") = 7
    /\ c_read.channels["A"].items[1].grade = PENDING
    /\ c_read.channels["A"].items[2].grade = PENDING
    /\ cached_channels_data.channels["A"].items[2].grade = PENDING
    /\ cached_channels_data.channels["B"] = c_read.channels["B"]

\* the slots an override task was applied to in the step
Overridden ==
    {<<tasks[id].target_channel, 1>> : id \in NewlySucceeded}

\* C16: in a cycle with measurement-based sorting enabled (and weight ranges
\* configured) and a successful read, every slot read as pending that no
\* override was applied to ends the cycle with a lane or with grade 0: none
\* is left at 100, and the cycle runs to its end.
C16_NoPendingLeft ==
    [][(IsCycle /\ enable_weight_sorting /\ weight_ranges # <<>> /\ ReadOk(c_read'))
          => /\ loop_count' = loop_count + 1
             /\ \A s \in (Lines \X (1..SlotsPerChannel)) \ Overridden :
                   c_read'.channels[s[1]].items[s[2]].grade = PENDING
                   => cached_channels_data'.channels[s[1]].items[s[2]].grade
                         # PENDING]_vars

-----------------------------------------------------------------------------
(* Template.get_channel: claims *)

TLastTpl == Templates[t_last.template]
BandsOf(tpl, name, kind) ==
    UNION {{<<i, IF kind = "bad" THEN d.badLevel[i] ELSE d.goodLevel[i]>> :
                i \in 1..Len(IF kind = "bad" THEN d.badLevel ELSE d.goodLevel)} :
           d \in {x \in SeqRange(tpl.detectors) : x.name = name}}
\* the reject bands of a profile that hold the value, with their rank
HitBad(tpl, name, v) ==
    {b \in BandsOf(tpl, name, "bad") : b[2].min <= v /\ v <= b[2].max}
FirstOut(hits) == (CHOOSE b \in hits : \A c \in hits : b[1] <= c[1])[2].out

\* C8: a weight in a reject band of the weight profile gives that band's out,
\* whatever the water value, the score table, the scoring flag and the second;
\* otherwise a water value in a reject band of the water profile gives that
\* band's out.
C8_RejectBandFirst ==
    t_last.called =>
        LET wb == HitBad(TLastTpl, "weight", t_last.weight)
            ab == HitBad(TLastTpl, "water", t_last.water)
        IN  /\ wb # {} => t_last.result = IntV(FirstOut(wb))
            /\ (wb = {} /\ ab # {}) => t_last.result = IntV(FirstOut(ab))

C8_Witness ==
    /\ t_last.called /\ TLastTpl.scores_enabled /\ t_last.second % 2 = 1
    /\ HitBad(TLastTpl, "weight", t_last.weight) # {}
    /\ HitBad(TLastTpl, "water", t_last.water) # {}
    /\ t_last.result = IntV(1)

ProfileOf(tpl, name) == CHOOSE d \in SeqRange(tpl.detectors) : d.name = name

HitGood(tpl, name, v) ==
    {b \in BandsOf(tpl, name, "good") : b[2].min <= v /\ v <= b[2].max}
NoRejectHit ==
    /\ HitBad(TLastTpl, "weight", t_last.weight) = {}
    /\ HitBad(TLastTpl, "water", t_last.water) = {}
Alternated(e, second) == IntV(IF second % 2 = 0 THEN e.out ELSE e.subout)

\* C27: no loaded template makes get_channel with composite scoring divide
\* by zero: an evaluation with scoring enabled does not end in an exception.
C27_ZeroMaxRejectedAtLoad ==
    (t_last.called /\ TLastTpl.scores_enabled /\ NoRejectHit)
       => t_last.result.tag # "raise"

\* C28: a result that comes from a score-table entry or from an accept band
\* is that entry's out on an even second and its subout on an odd one; a
\* result that comes from a reject band is the band's out on either.
C28_LaneAlternation ==
    t_last.called =>
       LET tpl == TLastTpl
           second == t_last.second
           entries == IF tpl.scores_enabled THEN SeqRange(tpl.scores_config)
                      ELSE {b[2] : b \in HitGood(tpl, "weight", t_last.weight)
                                        \cup HitGood(tpl, "water", t_last.water)}
           wb == HitBad(tpl, "weight", t_last.weight)
           ab == HitBad(tpl, "water", t_last.water)
       IN  /\ (NoRejectHit /\ t_last.result.tag = "int")
                => /\ \E e \in entries : t_last.result = Alternated(e, second)
                   /\ second % 2 = 0 => t_last.result.val \in {e.out : e \in entries}
                   /\ second % 2 = 1 => t_last.result.val \in {e.subout : e \in entries}
           /\ ~NoRejectHit
                => t_last.result = IntV(FirstOut(IF wb # {} THEN wb ELSE ab))

\* an accept band of template 2 on an odd second gives the subout 15
C28_Witness ==
    /\ t_last.called /\ t_last.template = "2" /\ t_last.weight = 150
    /\ t_last.second = 1 /\ t_last.result = IntV(15)

\* C29: with scoring disabled and no reject band hit, the result is taken
\* from the first profile (in document order) whose factor is 100: the first
\* of its accept bands that holds the profile's own value (the weight for the
\* weight profile, the water value otherwise), out or subout by the second;
\* None when no band holds the value or no profile has the factor 100.
C29_DominantProfile ==
    (t_last.called /\ ~TLastTpl.scores_enabled /\ NoRejectHit)
       => LET ds == TLastTpl.detectors
              dom == {i \in 1..Len(ds) : ds[i].wg.has /\ ds[i].wg.val = 100}
          IN  IF dom = {} THEN t_last.result = NoneV
              ELSE LET d == ds[CHOOSE i \in dom : \A j \in dom : i <= j]
                       own == IF d.name = "weight" THEN t_last.weight ELSE t_last.water
                       hits == {k \in 1..Len(d.goodLevel) :
                                   d.goodLevel[k].min <= own /\ own <= d.goodLevel[k].max}
                   IN  IF hits = {} THEN t_last.result = NoneV
                       ELSE LET k == CHOOSE h \in hits : \A g \in hits : h <= g
                            IN  t_last.result = Alternated(d.goodLevel[k], t_last.second)

\* water 59 is the upper end of the second accept band of template 6, whose
\* water profile has the factor 100
C29_Witness ==
    /\ t_last.called /\ t_last.template = "6" /\ t_last.water = 59
    /\ t_last.weight = 3000 /\ t_last.second = 0 /\ t_last.result = IntV(5)

-----------------------------------------------------------------------------
(* The manager's lock: claims *)

\* C17: every access to weight_ranges, custom_tasks and the enable flags, by
\* the monitor loop, by the calls that change them and by get_statistics, is
\* made by a thread that holds the manager's lock at that moment.
C17_AccessesHoldLock == m_access.held

-----------------------------------------------------------------------------
(* PLCCommunicator: claims *)

\* the thread is inside a with self._lock block
Inside(t) == p_pc[t] \in {"in", "rd", "mod", "wr", "out"}

\* C18: at most one request is in flight on the connection; whatever the
\* interleaving of the calling threads, a thread that is inside a read or
\* write operation, or inside connect, close or is_connected, holds the lock
\* from its first step to its return; and between the read and the write of
\* a bit read-modify-write no other client operation touches the register:
\* it still holds the value that was read.
C18_OneRequestInFlight ==
    /\ Cardinality(p_wire) <= 1
    /\ \A t \in p_wire : p_lock = t /\ p_pc[t] \in {"rd", "wr"}
    /\ \A t \in PThreads : Inside(t) => p_lock = t
    /\ \A t \in PThreads :
          (p_pc[t] \in {"mod", "wr"} /\ IsWrite(p_op[t]))
             => p_regs[p_op[t].addr] = p_val[t]

\* a write_register is in flight for one thread while the other waits at the
\* lock with a write to the same register
C18_Witness ==
    /\ p_pc["t1"] = "wr" /\ p_wire = {"t1"}
    /\ p_pc["t2"] = "lock" /\ IsWrite(p_op["t2"])
    /\ p_op["t2"].addr = p_op["t1"].addr
    /\ p_op["t2"].bit # p_op["t1"].bit

\* the thread's read was answered in the step
ReadAnswered(t) == p_pc[t] = "rd" /\ p_pc'[t] # "rd"

\* the thread's write was answered in the step, without error
Written(t) ==
    p_pc[t] = "wr" /\ p_pc'[t] = "out" /\ p_ret'[t] = RetBool(TRUE)

\* C19: every control and status bit is accessed at the inverted index: a
\* documented bit b of 0..7 is register bit b+8 and b of 8..15 is register bit
\* b-8, for each entry of CONTROL_BITS and STATUS_BITS and for each status
\* flag get_system_status reports; remote_stop (documented bit 2) sets and
\* then clears bit 10 of the control register and no other bit, and a read of
\* bit 10 made while it is set returns True.
C19_BitIndexInversion ==
    [][/\ \A b \in 0..7 : ConvertDocBitToActualBit(b) = b + 8
       /\ \A b \in 8..15 : ConvertDocBitToActualBit(b) = b - 8
       /\ \A i \in 1..Len(ControlNames) : CONTROL_BITS[ControlNames[i]] = (i - 1) + 8
       /\ \A i \in 1..Len(StatusNames) : STATUS_BITS[StatusNames[i]] = (i - 1) + 8
       /\ \A t \in PThreads :
            /\ (p_op[t].kind = "remote_stop" /\ Written(t))
                  => /\ p_op[t].addr = 0
                     /\ TestBit(p_regs'[0], 10) = (p_op[t].phase = 1)
                     /\ \A b \in (0..15) \ {10} :
                           TestBit(p_regs'[0], b) = TestBit(p_regs[0], b)
            /\ (p_op[t] = ReadBitOp(0, 10) /\ ReadAnswered(t) /\ TestBit(p_regs[0], 10))
                  => p_ret'[t] \in {RetNone, RetBool(TRUE)}
            /\ (p_op[t].kind = "get_system_status" /\ ReadAnswered(t)
                  /\ p_ret'[t].tag = "status")
                  => \A i \in 1..Len(StatusNames) :
                        p_ret'[t].val[StatusNames[i]]
                           = TestBit(p_regs[300], (i - 1) + 8)]_vars

\* remote_stop has set bit 10 and not yet cleared it, and the other thread's
\* read of bit 10 of the control register has returned True
C19_Witness ==
    /\ p_op["t1"].kind = "remote_stop" /\ p_op["t1"].phase = 2 /\ p_pc["t1"] = "lock"
    /\ p_op["t1"].bit = 10
    /\ TestBit(p_regs[0], 10)
    /\ p_op["t2"] = ReadBitOp(0, 10) /\ p_pc["t2"] = "out"
    /\ p_ret["t2"] = RetBool(TRUE)

\* C20: _write_register_bit sends the 16-bit value it has just read with bit
\* `bit` set to v and the other 15 bits as read, for every bit of 0..15, and
\* the register takes exactly that value; when the read fails (or no
\* connection is made) no write is sent, the register is left alone and
\* False is returned.
C20_WriteBitFrame ==
    [][\A t \in PThreads : p_op[t].kind = "write_bit" =>
          /\ (p_pc[t] = "mod" /\ p_pc'[t] = "wr")
                => /\ p_val[t] = p_regs[p_op[t].addr]
                   /\ p_req'[t] \in 0..WordMax
                   /\ TestBit(p_req'[t], p_op[t].bit) = p_op[t].value
                   /\ \A b \in (0..15) \ {p_op[t].bit} :
                         TestBit(p_req'[t], b) = TestBit(p_val[t], b)
          /\ Written(t)
                => /\ p_regs'[p_op[t].addr] = p_req[t]
                   /\ \A a \in DOMAIN p_regs : a # p_op[t].addr => p_regs'[a] = p_regs[a]
          /\ (p_pc[t] \in {"in", "rd"} /\ p_pc'[t] = "out")
                => /\ p_ret'[t] = RetBool(FALSE)
                   /\ p_regs' = p_regs
                   /\ t \notin p_wire'
          /\ p_pc[t] # "wr" => p_regs' = p_regs \/ \E u \in PThreads \ {t} : p_pc[u] = "wr"]_vars

\* bit 9 of a register holding 0xA5A5 was set: the word written is 0xA7A5
C20_Witness ==
    /\ p_op["t1"] = WriteBitOp(0, 9, TRUE) /\ p_pc["t1"] = "out"
    /\ p_val["t1"] = 42405 /\ p_req["t1"] = 42917
    /\ p_regs[0] = 42917 /\ p_ret["t1"] = RetBool(TRUE)

\* the call of the thread returns to its caller in the step
Returns(t) == p_pc[t] = "out" /\ p_pc'[t] = "idle"

\* C21: _pulse_register_bit writes the bit to 1 and then to 0, in that
\* order; it returns True only when both writes succeeded; when the setting
\* write failed no clearing write is made and False is returned; and after a
\* successful pulse with no other writer the bit is 0 and every other bit of
\* the register is as it was before the pulse.
C21_PulseSetsThenClears ==
    [][\A t \in PThreads : IsPulse(p_op[t]) =>
          /\ p_op[t].value = (p_op[t].phase = 1)
          /\ (p_pc[t] = "mod" /\ p_pc'[t] = "wr")
                => TestBit(p_req'[t], p_op[t].bit) = (p_op[t].phase = 1)
          /\ (p_op'[t].phase = 2 /\ p_op[t].phase = 1)
                => /\ p_pc[t] = "out" /\ p_ret[t] = RetBool(TRUE)
                   /\ p_op'[t] = [p_op[t] EXCEPT !.value = FALSE, !.phase = 2]
          /\ (p_pc[t] = "out" /\ p_op[t].phase = 1 /\ p_ret[t] # RetBool(TRUE))
                => /\ p_op'[t].phase # 2
                   /\ p_pc'[t] # "out" => (Returns(t) /\ p_ret'[t] = RetBool(FALSE))
          /\ Returns(t)
                => /\ p_ret'[t] \in {RetBool(TRUE), RetBool(FALSE)}
                   /\ p_ret'[t] = RetBool(TRUE)
                         => /\ p_op[t].phase = 2 /\ p_ret[t] = RetBool(TRUE)
                            /\ unit = "bit"
                               => /\ ~TestBit(p_regs'[p_op[t].addr], p_op[t].bit)
                                  /\ \A b \in (0..15) \ {p_op[t].bit} :
                                        TestBit(p_regs'[p_op[t].addr], b)
                                           = TestBit(p_op[t].before, b)]_vars

\* remote_reset on a control register holding 0xA5A5 (bit 11 clear) has
\* returned True: the register holds 0xA5A5 again
C21_Witness ==
    /\ unit = "bit"
    /\ p_op["t1"].kind = "remote_reset" /\ p_op["t1"].phase = 2
    /\ p_op["t1"].bit = 11 /\ p_op["t1"].before = 42405
    /\ p_pc["t1"] = "out" /\ p_ret["t1"] = RetBool(TRUE)
    /\ p_val["t1"] = 44453 /\ p_req["t1"] = 42405
    /\ p_regs[0] = 42405


\* what a failed call of the operation returns: False from the writes, None
\* from the reads
FailureValue(op, ret) ==
    IF ReturnsBool(op) \/ op.kind = "connect" THEN ret = RetBool(FALSE)
    ELSE IF op = BulkOp
    THEN ret.tag = "grades" /\ \A c \in Lines : ret.val[c] = ChannelNone
    ELSE ret.tag = "None"

C23_OneReadDecodedByAddress ==
    \A t \in PThreads :
       (p_op[t] = BulkOp /\ p_pc[t] = "out")
          => /\ \A c \in Lines : p_op[t].addr <= ChannelStart(c)
             /\ \A c \in Lines :
                   p_op[t].addr + p_op[t].bit >= ChannelStart(c) + 3 * SlotsPerChannel
             /\ \E c \in Lines :
                   p_op[t].addr + p_op[t].bit = ChannelStart(c) + 3 * SlotsPerChannel
             /\ p_call[t].rd <= 1 /\ p_call[t].wr = 0
             /\ p_call[t].rd = 0 => p_call[t].err
             /\ p_ret[t].tag = "grades"
             /\ \A c \in Lines :
                   LET channel_data == p_ret[t].val[c]
                   IN  \/ channel_data = ChannelNone
                       \/ /\ channel_data.ok
                          /\ ~p_call[t].err
                          /\ Len(channel_data.items) = SlotsPerChannel
                          /\ \A n \in 1..SlotsPerChannel :
                                LET item == channel_data.items[n]
                                IN  /\ item.sequence = n
                                    /\ item.address = ChannelStart(c) + 3 * (n - 1) + 2
                                    /\ item.address = GradeAddress(c, n)
                                    /\ item.grade = p_regs[item.address]
                                    /\ item.weight =
                                          Decode32BitInt(p_regs[item.address - 2],
                                                         p_regs[item.address - 1])

\* a read answered with 100 registers after set_channel_grade('A', 1, 7):
\* channel A is decoded with the grade written, channel D is None
C23_Witness ==
    /\ unit = "grades"
    /\ p_op["t1"] = BulkOp /\ p_pc["t1"] = "out"
    /\ p_ret["t1"].tag = "grades"
    /\ p_ret["t1"].val["D"] = ChannelNone
    /\ p_ret["t1"].val["A"].ok
    /\ p_ret["t1"].val["A"].items[1].grade = 7
    /\ p_ret["t1"].val["A"].items[1].address = 14
    /\ p_ret["t1"].val["A"].items[2].weight = -450
    /\ p_ret["t1"].val["A"].items[2].grade = PENDING




(* The weight services: claims *)

\* C32: the current_config of a weight service is never an invalid
\* configuration, and an update_config or reload_config call that reports
\* failure (invalid configuration, or a save that failed) leaves
\* current_config and its version as they were.
C32_InvalidNeverActive ==
    /\ [](unit = "config" =>
            \A s \in Services : ~g_cur[s].none => Validate(g_cur[s].configs))
    /\ [][(unit = "config" /\ g_calls' # g_calls)
            => \A s \in Services :
                  (g_last'.service = s /\ ~g_last'.ok) => g_cur'[s] = g_cur[s]]_vars

-----------------------------------------------------------------------------
(* SortingTaskManager weight ranges: claims *)

\* ranges that, put in ascending order, each end below the start of the next
NonOverlapping(ranges) ==
    /\ \A a \in ranges : a.min <= a.max
    /\ \A a \in ranges, b \in ranges : a # b => (a.max < b.min \/ b.max < a.min)

\* C30: when the stored weight ranges do not overlap, a waiting item whose
\* weight lies in [min, max] of one of them is given that range's grade by
\* the scan, in whatever order the ranges are stored.
C30_FirstMatchIsTheRange ==
    [][(w_last' # w_last /\ enable_weight_sorting
          /\ NonOverlapping(SeqRange(weight_ranges)))
         => \A r \in SeqRange(weight_ranges) :
               (r.min <= w_last'.weight /\ w_last'.weight <= r.max)
                  => (w_last'.written /\ w_last'.grade = r.grade)]_vars

\* the three ranges stored in descending order, and a weight of the first
C30_Witness ==
    /\ unit = "ranges" /\ w_last.called /\ w_last.written /\ enable_weight_sorting
    /\ weight_ranges = <<WeightRange(201, 300, 3), WeightRange(101, 200, 2),
                         WeightRange(0, 100, 1)>>
    /\ w_last.weight = 100 /\ w_last.grade = 1


\* the range of a non-empty table with the highest max_weight
HighestRange(ranges) ==
    CHOOSE r \in SeqRange(ranges) : \A q \in SeqRange(ranges) : q.max <= r.max

\* C31: when the stored weight ranges do not overlap, a waiting item heavier
\* than the highest max_weight is given the grade of the highest range.
C31_AboveHighestGetsLast ==
    [][(w_last' # w_last /\ enable_weight_sorting /\ weight_ranges # <<>>
          /\ NonOverlapping(SeqRange(weight_ranges))
          /\ w_last'.weight > HighestRange(weight_ranges).max)
         => (w_last'.written /\ w_last'.grade = HighestRange(weight_ranges).grade)]_vars

\* ascending order of min_weight
AscendingMin(ranges) ==
    \A i \in 1..Len(ranges), j \in 1..Len(ranges) : i < j => ranges[i].min <= ranges[j].min

\* C40: the stored weight ranges are in ascending order of min_weight after
\* every configure_weight_sorting, add_weight_range and clear_weight_ranges.
C40_RangesAscending ==
    unit = "ranges" => AscendingMin(weight_ranges)


(* Counter: claims *)

\* the threads that are inside `with self._lock`
InsideCounterLock ==
    {t \in KThreads : k_pc[t] \in {"body", "write", "notify", "reenter", "release"}}

\* C33: under every interleaving of get, set, tick and reset calls from
\* several threads at most one thread is inside the lock, the value is the
\* last value set plus the increments written after it, a tick returns the
\* value it wrote and a set returns the value it replaced.
C33_CounterThreadSafe ==
    unit = "counter" =>
        /\ Cardinality(InsideCounterLock) <= 1
        /\ k_value = k_expect
        /\ \A t \in KThreads :
              k_pc[t] = "release" =>
                 /\ k_op[t].kind = "tick" => k_ret[t] = k_loc[t].new_value
                 /\ k_op[t].kind \in {"set", "reset"} => k_ret[t] = k_loc[t].replaced
                 /\ k_op[t].kind = "get" => k_ret[t] = k_value

\* a tick of one thread returns 2 while the other thread, whose tick
\* returned 1, is calling again and waits for the lock
C33_Witness ==
    /\ unit = "counter"
    /\ \E t \in KThreads, u \in KThreads :
          /\ t # u
          /\ k_op[t].kind = "tick" /\ k_pc[t] = "release" /\ k_ret[t] = 2
          /\ k_pc[u] = "acquire" /\ k_value = 2

\* what a call that notifies must have invoked when it returns
ExpectedCallbacks(t) ==
    [i \in 1..Len(k_observers) |->
        [callback |-> k_observers[i], old_value |-> k_loc[t].replaced,
         new_value |-> k_loc[t].new_value]]

\* C34: when a set, tick or reset call returns, its thread has invoked every
\* registered observer exactly once, in registration order, with the old and
\* the new value of that mutation, whether or not a callback raised, and the
\* value is the one the call wrote; no callback is registered twice, so one
\* that was removed is not invoked.
C34_ObserversNotifiedOnce ==
    unit = "counter" =>
        /\ \A i \in 1..Len(k_observers), j \in 1..Len(k_observers) :
              k_observers[i] = k_observers[j] => i = j
        /\ \A t \in KThreads :
              (k_pc[t] = "release" /\ k_op[t].kind \in Mutators) =>
                 /\ Len(k_seen[t]) = Len(k_observers)
                 /\ \A i \in 1..Len(k_observers) : k_seen[t][i] = ExpectedCallbacks(t)[i]
                 /\ k_value = k_loc[t].new_value

\* a tick returns after the raising callback and then the logging one ran
C34_Witness ==
    /\ unit = "counter"
    /\ \E t \in KThreads :
          /\ k_pc[t] = "release" /\ k_op[t].kind = "tick"
          /\ k_observers = <<"raises", "log">>
          /\ Len(k_seen[t]) = 2 /\ k_seen[t][2].callback = "log"
          /\ k_seen[t][2].new_value = 1

\* C39: every set, tick or reset call returns and leaves the lock free of
\* its thread, whatever the registered callbacks do with the Counter.
C39_MutatorsReturn ==
    \A t \in KThreads :
        (k_pc[t] # "idle" /\ k_op[t].kind \in Mutators)
           ~> (k_pc[t] = "idle" /\ k_lock # t)

-----------------------------------------------------------------------------
(* CachedSortingTaskManager: start(), stop() and the loop: claims *)

\* C24: a monitor thread that tests self.running and finds it False leaves
\* the loop and a new iteration is entered only with running True, so with
\* running False a live thread finishes at most the iteration it is in and
\* ends; stop() waiting in join returns (at the timeout at the latest, even
\* while the thread is still inside an iteration); stop() when running is
\* already False changes neither running nor the thread nor waits.
C24_StopEndsLoop ==
    /\ [][\A t \in LThreads :
            (l_pc[t] = "while" /\ l_pc'[t] # "while")
               => l_pc'[t] = (IF running THEN "cycle" ELSE "dead")]_vars
    /\ [][\A t \in LThreads : (l_pc[t] # "cycle" /\ l_pc'[t] = "cycle") => running]_vars
    /\ [][(s_last' = "stop_refused" /\ s_last # "stop_refused")
            => (~running /\ UNCHANGED <<running, thread, l_pc, l_out, s_pc>>)]_vars
    /\ [][(running /\ ~running') => (s_last' = "stopped" /\ UNCHANGED l_pc)]_vars
    /\ \A t \in LThreads : (Alive(t) /\ ~running) ~> (~Alive(t) \/ running)
    /\ (s_pc = "join") ~> (s_pc = "idle")

\* stop() has returned and the thread it stopped has ended after a cycle
C24_Witness ==
    /\ unit = "life" /\ ~running /\ s_last = "stopped" /\ s_pc = "idle"
    /\ thread = 1 /\ l_pc[1] = "dead" /\ l_out[1] = "read_failed"

\* C25: however the try block of an iteration ends (bulk read failed, batch
\* write failed, exception raised), the thread goes on to the sleep, and
\* from that sleep it reaches the next bulk read unless running has become
\* False.
C25_FailuresDoNotHaltLoop ==
    /\ [][\A t \in LThreads :
            (l_pc[t] = "cycle" /\ l_pc'[t] # "cycle") => l_pc'[t] = "sleep"]_vars
    /\ \A t \in LThreads :
          (l_pc[t] = "sleep" /\ l_out[t] \in {"read_failed", "write_failed", "raised"})
             ~> (l_pc[t] = "cycle" \/ ~running)

\* the thread is in the iteration after one that raised an exception
C25_Witness ==
    /\ unit = "life" /\ running /\ thread = 1
    /\ l_pc[1] = "cycle" /\ l_out[1] = "raised"

\* C26: at most one monitor-loop thread is inside an iteration of the loop.
C26_AtMostOneLoop ==
    Cardinality({t \in LThreads : l_pc[t] = "cycle"}) <= 1


(* CachedSortingTaskManager: the position handed to the alignment queues *)

\* C36: the position _count that weight evaluation passes to the alignment
\* queues equals the value of the shared Counter after every call that
\* changes the count.
C36_CountFollowsCounter ==
    unit \in Uses => _count = counter


(* CachedSortingTaskManager: conservation of the override tasks *)

\* custom_tasks holds only tasks that were not executed, in ascending order
\* of target_count
OnlyPendingAscending(heap, ids) ==
    /\ \A i \in 1..Len(ids) : ~heap[ids[i]].executed /\ heap[ids[i]].success = "None"
    /\ \A i \in 1..Len(ids), j \in 1..Len(ids) :
          i < j => heap[ids[i]].target_count <= heap[ids[j]].target_count

\* a task that was executed keeps its outcome; one that is executed in the
\* step was pending before and is Succeeded or Missed after
TaskStateMoves(before, after) ==
    /\ Len(after) >= Len(before)
    /\ \A id \in 1..Len(before) :
          \/ after[id] = before[id]
          \/ /\ ~before[id].executed /\ before[id].success = "None"
             /\ after[id] = MarkExecuted(before[id], after[id].success = "True")
             /\ after[id].success \in {"True", "False"}

\* C37: between two calls custom_tasks holds only not-yet-executed tasks in
\* ascending order of target_count, every task ever added is either still in
\* custom_tasks or counted once in custom_sorted_count or missed_tasks, and a
\* task only moves from Pending to Succeeded or from Pending to Missed.
C37_TaskConservation ==
    /\ [](unit \in Uses =>
            /\ OnlyPendingAscending(tasks, custom_tasks)
            /\ Len(tasks) = Len(custom_tasks) + stats.custom_sorted_count
                              + stats.missed_tasks)
    /\ [][(unit \in Uses) => TaskStateMoves(tasks, tasks')]_vars

\* two tasks were added; one succeeded, the other was missed
C37_Witness ==
    /\ unit \in Uses
    /\ Len(tasks) = 2
    /\ custom_tasks = <<>>
    /\ stats.custom_sorted_count = 1
    /\ stats.missed_tasks = 1
    /\ \E a \in 1..2, b \in 1..2 : tasks[a].success = "True" /\ tasks[b].success = "False"


(* DataManager: one reading, one slot decision *)

\* C38: once a slot decision has obtained the water reading recorded at
\* position - offset, a later slot of the same channel that is evaluated at
\* the same position finds no aligned reading (it is evaluated as a miss).
C38_ReadingServesOneSlot ==
    (/\ unit = "data" /\ d_last.called /\ d_last.name = "weight"
     /\ d_last.evaluated /\ ~d_last.miss)
    => GetOffsetValue(TheDm, d_last.line, "water", d_last.position).value = NoItem


(* AlignedQueue under concurrent put() and get_aligned(): claims *)

\* C35: with put() and get_aligned(t) running concurrently and unlocked,
\* get_aligned returns None or an entry whose position equals t, and it
\* never drops an entry whose position is t or later.
C35_AlignedUnderRace ==
    unit = "race" =>
        /\ (r_ret.called /\ r_ret.result # NoItem) => r_ret.result[1].position = r_ret.t
        /\ \A e \in r_lost : e.position < r_t

====
